---- MODULE Spec2Model ----
(***************************************************************************)
(* A model of go-guac: the Guacamole instruction codec, the handshake      *)
(* configuration, and the tunnel between guacd (the upstream, a net.Conn)  *)
(* and the browser (the downstream, a websocket).                          *)
(*                                                                         *)
(* Go strings are TLA+ strings, one character per byte.  Two characters    *)
(* stand for the bytes of a two-byte UTF-8 rune: Lead2 followed by Cont.   *)
(* A Go error is a sequence: Nil is <<>> and an error is <<message>>.      *)
(***************************************************************************)
EXTENDS Integers, Sequences, FiniteSets, TLC

(***************************************************************************)
(* Strings and strconv                                                     *)
(***************************************************************************)

Nil == <<>>

Err(msg) == <<msg>>

\* s[i] of Go (0-based), as a one-character string.
CharAt(s, i) == SubSeq(s, i + 1, i + 1)

\* s[lo:hi] of Go (0-based, hi exclusive).
Slice(s, lo, hi) == SubSeq(s, lo + 1, hi)

\* strings.Index(s, c) for a one-byte c: the first position, or -1.
Index(s, c) ==
    IF \E i \in 0..(Len(s) - 1) : CharAt(s, i) = c
    THEN CHOOSE i \in 0..(Len(s) - 1) :
            /\ CharAt(s, i) = c
            /\ \A j \in 0..(i - 1) : CharAt(s, j) # c
    ELSE -1

\* strings.LastIndex(s, c) for a one-byte c: the last position, or -1.
LastIndex(s, c) ==
    IF \E i \in 0..(Len(s) - 1) : CharAt(s, i) = c
    THEN CHOOSE i \in 0..(Len(s) - 1) :
            /\ CharAt(s, i) = c
            /\ \A j \in (i + 1)..(Len(s) - 1) : CharAt(s, j) # c
    ELSE -1

Digits == "0123456789"

IsDigit(c) == Index(Digits, c) # -1

RECURSIVE Itoa(_)
\* strconv.Itoa / strconv.FormatInt(n, 10).
Itoa(n) ==
    IF n < 0 THEN "-" \o Itoa(0 - n)
    ELSE IF n < 10 THEN CharAt(Digits, n)
    ELSE Itoa(n \div 10) \o CharAt(Digits, n % 10)

RECURSIVE DigitsValue(_, _)
DigitsValue(s, acc) ==
    IF s = "" THEN acc
    ELSE DigitsValue(Slice(s, 1, Len(s)), acc * 10 + Index(Digits, CharAt(s, 0)))

\* strconv.Atoi(s) with the error dropped (l, _ := strconv.Atoi(..)): an
\* optional sign and decimal digits; anything else gives 0.
Atoi(s) ==
    LET signed == s # "" /\ CharAt(s, 0) \in {"+", "-"}
        body   == IF signed THEN Slice(s, 1, Len(s)) ELSE s
        ok     == body # "" /\ \A i \in 0..(Len(body) - 1) : IsDigit(CharAt(body, i))
    IN IF ~ok THEN 0
       ELSE IF signed /\ CharAt(s, 0) = "-" THEN 0 - DigitsValue(body, 0)
       ELSE DigitsValue(body, 0)

(***************************************************************************)
(* UTF-8: the bytes of the model                                           *)
(***************************************************************************)

\* The first byte of a two-byte rune, and its continuation byte.
Lead2 == "@"
Cont == "~"

\* The size utf8.DecodeRuneInString reports for the rune at the head of s:
\* 0 for the empty string, 1 for an ASCII byte or an invalid byte, 2 for a
\* two-byte rune.
RuneSize(s) ==
    IF s = "" THEN 0
    ELSE IF CharAt(s, 0) = Lead2 /\ Len(s) >= 2 /\ CharAt(s, 1) = Cont THEN 2
    ELSE 1

RECURSIVE RuneCountInString(_)
RuneCountInString(s) ==
    IF s = "" THEN 0
    ELSE 1 + RuneCountInString(Slice(s, RuneSize(s), Len(s)))

(***************************************************************************)
(* protocol.Element and protocol.Instruction                               *)
(***************************************************************************)

\* A decoder that cuts at the last '.' of the element instead of the first.
ValueAfterLastDot(e) == Slice(e, LastIndex(e, ".") + 1, Len(e))

\* Element.Value: everything after the first "." (all of it when there is none).
Value(e) == Slice(e, Index(e, ".") + 1, Len(e))

\* Element.Length panics on s[:idx] when the element has no ".".
LengthPanics(e) == Index(e, ".") = -1

Length(e) == Atoi(Slice(e, 0, Index(e, ".")))

NewElement(s) == Itoa(RuneCountInString(s)) \o "." \o s

RECURSIVE JoinComma(_)
\* strings.Join(elements, ",")
JoinComma(elements) ==
    IF elements = <<>> THEN ""
    ELSE IF Len(elements) = 1 THEN elements[1]
    ELSE elements[1] \o "," \o JoinComma(Tail(elements))

NewInstruction(opcode, args) ==
    JoinComma([k \in 1..(Len(args) + 1) |->
                  NewElement((<<opcode>> \o args)[k])]) \o ";"

\* Instruction.Opcode panics on s[:-1] when s has neither "," nor ";".
OpcodePanics(s) == Index(s, ",") = -1 /\ LastIndex(s, ";") = -1

Opcode(s) ==
    IF Index(s, ",") = -1 THEN Slice(s, 0, LastIndex(s, ";"))
    ELSE Slice(s, 0, Index(s, ","))

RECURSIVE RuneEnd(_, _, _)
\* The inner loop of Instruction.Args: from byte offset end, step over
\* (length - runeCount) runes, by the size DecodeRuneInString reports.
RuneEnd(args, end, left) ==
    IF left <= 0 THEN end
    ELSE RuneEnd(args, end + RuneSize(Slice(args, end, Len(args))), left - 1)

RECURSIVE ArgsScan(_, _)
\* The outer loop of Instruction.Args over the text after the first ",":
\* the elements collected, and whether the scan panics (an index or slice
\* bound out of range).
ArgsScan(args, elements) ==
    LET dotIndex == Index(args, ".")
    IN IF dotIndex = -1 THEN [elements |-> elements, panic |-> TRUE]
       ELSE LET length == Atoi(Slice(args, 0, dotIndex))
                end    == RuneEnd(args, dotIndex + 1, length)
                got    == Append(elements, Slice(args, 0, end))
            IN IF end >= Len(args) THEN [elements |-> got, panic |-> TRUE]
               ELSE IF CharAt(args, end) = ";"
                    THEN [elements |-> got, panic |-> FALSE]
               ELSE ArgsScan(Slice(args, end + 1, Len(args)), got)

ArgsResult(s) ==
    IF Index(s, ",") = -1 THEN [elements |-> <<>>, panic |-> FALSE]
    ELSE ArgsScan(Slice(s, Index(s, ",") + 1, Len(s)), <<>>)

Args(s) == ArgsResult(s).elements

ArgsPanics(s) == ArgsResult(s).panic

\* The values of the arguments of an instruction.
ArgValues(s) == [k \in 1..Len(Args(s)) |-> Value(Args(s)[k])]

\* An IsError that takes no instruction for an error.
IsErrorNever(s) == FALSE

IsError(s) == Value(Opcode(s)) = "error"

(***************************************************************************)
(* guac.Element and guac.Instruction: the codec of package guac, which     *)
(* counts bytes                                                            *)
(***************************************************************************)

\* fmt.Sprintf("%d.%s", len(s), s)
GuacNewElement(s) == Itoa(Len(s)) \o "." \o s

GuacNewInstruction(opcode, args) ==
    JoinComma([k \in 1..(Len(args) + 1) |->
                  GuacNewElement((<<opcode>> \o args)[k])]) \o ";"

\* Instruction.Opcode panics on string(i)[:-1] when there is no ",".
GuacOpcodePanics(s) == Index(s, ",") = -1

GuacOpcode(s) == Slice(s, 0, Index(s, ","))

RECURSIVE GuacArgsScan(_, _)
\* The loop of Instruction.Args: end is start plus the declared length, in
\* bytes; args[start:end] and args[end] panic when out of range.
GuacArgsScan(args, elements) ==
    LET dotIndex == Index(args, ".")
    IN IF dotIndex = -1 THEN [elements |-> elements, panic |-> TRUE]
       ELSE LET length == Atoi(Slice(args, 0, dotIndex))
                start  == dotIndex + 1
                end    == start + length
            IN IF end < start \/ end >= Len(args)
               THEN [elements |-> elements, panic |-> TRUE]
               ELSE LET got == Append(elements,
                                      GuacNewElement(Slice(args, start, end)))
                    IN IF CharAt(args, end) = ";"
                       THEN [elements |-> got, panic |-> FALSE]
                       ELSE GuacArgsScan(Slice(args, end + 1, Len(args)), got)

\* With no "," in the instruction commaIdx is -1 and the scan starts at the
\* head of the instruction.
GuacArgsResult(s) == GuacArgsScan(Slice(s, Index(s, ",") + 1, Len(s)), <<>>)

GuacArgs(s) == GuacArgsResult(s).elements

GuacArgsPanics(s) == GuacArgsResult(s).panic

(***************************************************************************)
(* protocol.Status and Instruction.Error                                   *)
(***************************************************************************)

\* The symbolic name Status.String appends to the decimal code.
StatusName(code) ==
    CASE code = 0   -> "_SUCCESS"
      [] code = 256 -> "_UNSUPPORTED"
      [] code = 512 -> "_SERVER_ERROR"
      [] code = 513 -> "_SERVER_BUSY"
      [] code = 514 -> "_UPSTREAM_TIMEOUT"
      [] code = 515 -> "_UPSTREAM_ERROR"
      [] code = 516 -> "_RESOURCE_NOT_FOUND"
      [] code = 517 -> "_RESOURCE_CONFLICT"
      [] code = 518 -> "_RESOURCE_CLOSED"
      [] code = 519 -> "_UPSTREAM_NOT_FOUND"
      [] code = 520 -> "_UPSTREAM_UNAVAILABLE"
      [] code = 521 -> "_SESSION_CONFLICT"
      [] code = 522 -> "_SESSION_TIMEOUT"
      [] code = 523 -> "_SESSION_CLOSED"
      [] code = 768 -> "_CLIENT_BAD_REQUEST"
      [] code = 769 -> "_CLIENT_UNAUTHORIZED"
      [] code = 771 -> "_CLIENT_FORBIDDEN"
      [] code = 776 -> "_CLIENT_TIMEOUT"
      [] code = 781 -> "_CLIENT_OVERRUN"
      [] code = 783 -> "_CLIENT_BAD_TYPE"
      [] code = 797 -> "_CLIENT_TOO_MANY"
      [] OTHER      -> "_UNKNOWN"

StatusString(code) == Itoa(code) \o StatusName(code)

\* Instruction.Error panics when Opcode or Args panics, or on args[0] /
\* args[1] of an error instruction with fewer than two arguments.
ErrorPanics(s) ==
    \/ OpcodePanics(s)
    \/ /\ IsError(s)
       /\ (ArgsPanics(s) \/ Len(Args(s)) < 2)

\* The text fmt.Errorf("server error: %s %s", status.String(), message) gives.
ServerError(code, message) ==
    Err("server error: " \o StatusString(code) \o " " \o message)

\* Instruction.Error: nil unless the opcode is "error".
Error(s) ==
    IF ~IsError(s) THEN Nil
    ELSE ServerError(Atoi(Value(Args(s)[2])), Value(Args(s)[1]))

(***************************************************************************)
(* protocol.HandshakeConfig                                                *)
(***************************************************************************)

defaultScreenWidth == 1920
defaultScreenHeight == 1080
defaultScreenDpi == 96
defaultProtocol == "rdp"

\* m[k] of a Go map: the zero value "" for a missing key.
MapGet(m, k) == IF k \in DOMAIN m THEN m[k] ELSE ""

\* m[k] = v
MapPut(m, k, v) == [x \in (DOMAIN m) \cup {k} |-> IF x = k THEN v ELSE m[x]]

WithProtocol(c, protocol) == [c EXCEPT !.protocol = protocol]

WithDomain(c, domain) ==
    [c EXCEPT !.connectArgs = MapPut(@, "domain", domain)]

WithAuth(c, username, password) ==
    [c EXCEPT !.connectArgs =
        MapPut(MapPut(@, "username", username), "password", password)]

WithHostPort(c, host, port) ==
    [c EXCEPT !.connectArgs = MapPut(MapPut(@, "hostname", host), "port", port)]

WithScreen(c, width, height, dpi) ==
    [c EXCEPT !.width = width, !.height = height, !.dpi = dpi]

WithSecurity(c, security) ==
    [c EXCEPT !.connectArgs = MapPut(@, "security", security)]

\* One HandshakeOption applied to the config under construction.
ApplyOption(c, o) ==
    CASE o.opt = "WithProtocol" -> WithProtocol(c, o.a)
      [] o.opt = "WithDomain"   -> WithDomain(c, o.a)
      [] o.opt = "WithAuth"     -> WithAuth(c, o.a, o.b)
      [] o.opt = "WithHostPort" -> WithHostPort(c, o.a, o.b)
      [] o.opt = "WithSecurity" -> WithSecurity(c, o.a)
      [] o.opt = "WithScreen"   -> WithScreen(c, o.w, o.h, o.d)

setScreen(c) ==
    [c EXCEPT !.connectArgs =
        MapPut(MapPut(MapPut(@, "width", Itoa(c.width)),
                      "height", Itoa(c.height)),
               "dpi", Itoa(c.dpi))]

RECURSIVE ApplyOptions(_, _)
ApplyOptions(c, opts) ==
    IF opts = <<>> THEN c ELSE ApplyOptions(ApplyOption(c, Head(opts)), Tail(opts))

NewHandshakeConfig(connectArgs, opts) ==
    setScreen(ApplyOptions([protocol     |-> defaultProtocol,
                            connectArgs  |-> connectArgs,
                            width        |-> defaultScreenWidth,
                            height       |-> defaultScreenHeight,
                            dpi          |-> defaultScreenDpi,
                            audioCodecs  |-> <<>>,
                            videoCodecs  |-> <<>>,
                            imageFormats |-> <<>>], opts))

SelectInstruction(c) == NewInstruction("select", <<c.protocol>>)

SizeInstruction(c) ==
    NewInstruction("size", <<Itoa(c.width), Itoa(c.height), Itoa(c.dpi)>>)

AudioInstruction(c) == NewInstruction("audio", c.audioCodecs)

VideoInstruction(c) == NewInstruction("video", c.videoCodecs)

ImageInstruction(c) == NewInstruction("image", c.imageFormats)

\* A connect that leaves out the names that were not configured.
ConnectInstructionConfiguredOnly(c, args) ==
    LET known == SelectSeq(args, LAMBDA a : Value(a) \in DOMAIN c.connectArgs)
    IN NewInstruction("connect",
                      [k \in 1..Len(known) |-> c.connectArgs[Value(known[k])]])

\* One value per element of args, looked up by the element's value.
ConnectInstruction(c, args) ==
    NewInstruction("connect",
                   [k \in 1..Len(args) |-> MapGet(c.connectArgs, Value(args[k]))])

(***************************************************************************)
(* The tunnel: state                                                       *)
(***************************************************************************)

VARIABLES
    impl,     \* which Tunnel: "tunnel" (package tunnel) or "guac" (package guac)
    config,   \* the *HandshakeConfig passed to Handshake
    tun,      \* the Tunnel's options: keep-alive settings, which callbacks are set
    env,      \* what the caller and the downstream may do in this run
    codec,    \* a use of the instruction codec by itself: encode, then decode
    hc,       \* a caller building HandshakeConfigs from one parameter map
    fr,       \* a FileRecorder by itself: recorded, closed, replayed
    script,   \* what the upstream (guacd) has still to do
    guacd,    \* the upstream net.Conn
    ws,       \* the downstream websocket
    err,      \* Tunnel.err, the error latch
    connId,   \* Tunnel.connId
    main,     \* the caller's goroutine: Handshake, then Forward
    ctxDone,  \* whether Forward's newCtx is cancelled
    g2w,      \* the goroutine running guacdToWs
    w2g,      \* the goroutine running wsToGuacd
    kaG,      \* the goroutine running guacdKeepalive
    kaW,      \* the goroutine running wsKeepalive
    closes,   \* the number of Close calls made
    calls,    \* the callbacks invoked so far, with their arguments, and the
              \* calls made to a Recorder
    crashed   \* a goroutine panicked: the process is gone

vars == <<impl, config, tun, env, codec, hc, fr, script, guacd, ws, err, connId, main,
          ctxDone, g2w, w2g, kaG, kaW, closes, calls, crashed>>

\* What no step of the tunnel changes.
static == <<impl, config, tun, env, codec, hc, fr>>

\* What the tunnel is made of.
tunnelVars == <<impl, config, tun, env, script, guacd, ws, err, connId, main,
                ctxDone, g2w, w2g, kaG, kaW, closes, calls, crashed>>

\* Bounds of the model.
MaxTicks == 2
MaxClose == 2
MaxEofReads == 2

minKeepaliveInterval == 30

IoEOF == Err("EOF")
ErrClosed == Err("use of closed network connection")
ErrReset == Err("connection reset by peer")
ErrTimeout == Err("i/o timeout")

(***************************************************************************)
(* Tunnel options                                                          *)
(***************************************************************************)

NewTunnelFields ==
    [guacdKeepaliveInterval |-> 0,
     wsKeepaliveInterval    |-> 0,
     wsKeepaliveThreshold   |-> 0,
     onConnect              |-> Nil,
     onReadFromGuacd        |-> Nil,
     onReadFromWs           |-> Nil,
     onDisconnect           |-> Nil]

\* A callback field holds one function or nil: <<f>> for the function named
\* f, and Nil.
WithOnConnect(t, f) == [t EXCEPT !.onConnect = <<f>>]

WithOnReadFromGuacd(t, f) == [t EXCEPT !.onReadFromGuacd = <<f>>]

WithOnReadFromWs(t, f) == [t EXCEPT !.onReadFromWs = <<f>>]

WithOnDisconnect(t, f) == [t EXCEPT !.onDisconnect = <<f>>]

\* Intervals are in seconds.
WithGuacdKeepalive(t, interval) ==
    [t EXCEPT !.guacdKeepaliveInterval =
        IF interval < minKeepaliveInterval THEN minKeepaliveInterval ELSE interval]

\* An option that stores what it is given.
WithWsKeepaliveUnclamped(t, interval, threshold) ==
    [t EXCEPT !.wsKeepaliveInterval = interval,
              !.wsKeepaliveThreshold = threshold]

WithWsKeepalive(t, interval, threshold) ==
    [t EXCEPT !.wsKeepaliveInterval =
                 IF interval < minKeepaliveInterval THEN minKeepaliveInterval
                 ELSE interval,
              !.wsKeepaliveThreshold = IF threshold < 1 THEN 1 ELSE threshold]

\* One TunnelOption applied to the tunnel under construction.
ApplyTunnelOption(t, o) ==
    CASE o.opt = "WithOnConnect"       -> WithOnConnect(t, o.f)
      [] o.opt = "WithOnReadFromGuacd" -> WithOnReadFromGuacd(t, o.f)
      [] o.opt = "WithOnReadFromWs"    -> WithOnReadFromWs(t, o.f)
      [] o.opt = "WithOnDisconnect"    -> WithOnDisconnect(t, o.f)
      [] o.opt = "WithGuacdKeepalive"  -> WithGuacdKeepalive(t, o.interval)
      [] o.opt = "WithWsKeepalive"     ->
             WithWsKeepalive(t, o.interval, o.threshold)

RECURSIVE NewTunnel(_)
\* for _, opt := range opts { opt(t) }
NewTunnel(opts) ==
    IF opts = <<>> THEN NewTunnelFields
    ELSE ApplyTunnelOption(NewTunnel(SubSeq(opts, 1, Len(opts) - 1)),
                           opts[Len(opts)])

\* The options of the runs.  Every callback is given; on-connect and
\* on-disconnect are given twice, with two functions.
CallbackOptions ==
    <<[opt |-> "WithOnConnect", f |-> "connect1"],
      [opt |-> "WithOnConnect", f |-> "connect2"],
      [opt |-> "WithOnReadFromGuacd", f |-> "fromGuacd1"],
      [opt |-> "WithOnReadFromWs", f |-> "fromWs1"],
      [opt |-> "WithOnDisconnect", f |-> "disconnect1"],
      [opt |-> "WithOnDisconnect", f |-> "disconnect2"]>>

GuacdKeepaliveOptions == <<[opt |-> "WithGuacdKeepalive", interval |-> 60]>>

WsKeepaliveOptions ==
    <<[opt |-> "WithWsKeepalive", interval |-> 30, threshold |-> 2]>>

\* The keep-alive options given an interval that is not positive.
GuacdKeepaliveZeroOptions ==
    <<[opt |-> "WithGuacdKeepalive", interval |-> 0]>>

WsKeepaliveZeroOptions ==
    <<[opt |-> "WithWsKeepalive", interval |-> -5, threshold |-> 0]>>

\* The upstream keep-alive given a positive interval below the floor.
GuacdKeepaliveSmallOptions ==
    <<[opt |-> "WithGuacdKeepalive", interval |-> 10]>>

TunnelOptionLists ==
    {<<>>, CallbackOptions, GuacdKeepaliveOptions, WsKeepaliveOptions,
     GuacdKeepaliveZeroOptions, WsKeepaliveZeroOptions,
     GuacdKeepaliveSmallOptions}

(***************************************************************************)
(* The handshake configurations and the upstream's scripts                 *)
(***************************************************************************)

\* The same options in two orders, over a caller-supplied map.
ConfigChoices ==
    {NewHandshakeConfig([k \in {"port"} |-> "22"],
        <<[opt |-> "WithHostPort", a |-> "h1", b |-> "3389"],
          [opt |-> "WithAuth", a |-> "u,1", b |-> "p.w"]>>),
     NewHandshakeConfig([k \in {"port"} |-> "22"],
        <<[opt |-> "WithAuth", a |-> "u,1", b |-> "p.w"],
          [opt |-> "WithHostPort", a |-> "h1", b |-> "3389"]>>),
     NewHandshakeConfig([k \in {"username", "domain"} |-> "x"],
        <<[opt |-> "WithProtocol", a |-> "vnc"],
          [opt |-> "WithScreen", w |-> 800, h |-> 600, d |-> 72]>>)}

Send(data, phase) == [kind |-> "send", data |-> data, phase |-> phase]
Eof(phase) == [kind |-> "eof", data |-> "", phase |-> phase]
Fail(phase) == [kind |-> "err", data |-> "", phase |-> phase]

ArgsA == NewInstruction("args", <<"hostname", "port", "username">>)
ArgsB == NewInstruction("args", <<"username", "bogus", "width", "hostname">>)
ArgsNone == NewInstruction("args", <<>>)
ReadyA == NewInstruction("ready", <<"$c1">>)
ReadyB == NewInstruction("ready", <<"$a.b,c", "extra">>)
ErrorA == NewInstruction("error", <<"denied", "769">>)
ErrorB == NewInstruction("error", <<"odd, one", "42">>)
D1 == NewInstruction("sync", <<"1">>)
D2 == NewInstruction("img", <<"2", "a,b">>)
D3 == NewInstruction("nop", <<>>)

\* An event of phase 1 happens once select is written, one of phase 2 once
\* connect is written, one of phase 0 at any time.
HandshakeScripts ==
    {<<Send(ArgsA, 1), Send(ReadyA, 2)>>,
     <<Send(ArgsB, 1), Send(ReadyB, 2)>>,
     <<Send(ArgsNone, 1), Send(ReadyA, 2)>>,
     <<Send(ErrorA, 1)>>,
     <<Send(ErrorB, 1), Eof(1)>>,
     <<Send(ArgsA, 1), Send(ErrorA, 2)>>,
     <<Send(ArgsA, 1), Send("5.ready;", 2)>>,
     <<Send("4.args,8.host", 1), Eof(1)>>,
     <<Send(ArgsA, 1), Fail(1)>>,
     <<Fail(0)>>}

ForwardScripts ==
    {<<Send(ArgsA, 1), Send(ReadyA, 2), Send(D1, 2), Send(D2, 2), Send(D3, 2), Eof(2)>>,
     <<Send(ArgsA, 1), Send(ReadyA, 2), Send(D1, 2), Send(ErrorA, 2), Fail(2)>>,
     <<Send(ArgsA, 1), Send(ReadyA, 2), Send(ErrorA, 2), Send(D2, 2)>>,
     <<Send(ArgsA, 1), Send(ReadyA \o D1, 2), Send(D2, 2), Eof(2)>>,
     <<Send(ArgsA, 1), Send(ReadyA, 2), Send("4.sync,", 2), Send("1.1;" \o D2, 2)>>}

KeepaliveScripts ==
    {<<Send(ArgsA, 1), Send(ReadyA, 2), Send(D1, 2)>>}

\* What the downstream sends, in this order.
WsScript == <<"5.mouse,1.3,1.4;", "3.key">>

\* What the caller and the downstream do: whether the caller goes on to
\* Forward, whether it cancels the context it passed, whether the downstream
\* connection breaks.
\* closes is how many times the caller calls Close at most: once when it
\* goes on to Forward, up to MaxClose times when it does not.
\* recorder is whether the caller has a Recorder it means the session to be
\* recorded with (tunnel.WithRecorder(rec) in the README); no Tunnel of the
\* source has an option or a field for it.
Quiet == [forward |-> TRUE, cancel |-> FALSE, wsBreak |-> FALSE, closes |-> 1,
          recorder |-> TRUE]
NoForward ==
    [forward |-> FALSE, cancel |-> FALSE, wsBreak |-> FALSE, closes |-> MaxClose,
     recorder |-> FALSE]
Cancelling == [forward |-> TRUE, cancel |-> TRUE, wsBreak |-> FALSE, closes |-> 1,
               recorder |-> FALSE]
Breaking == [forward |-> TRUE, cancel |-> FALSE, wsBreak |-> TRUE, closes |-> 1,
             recorder |-> FALSE]

Scenario(i, c, t, e, sc) ==
    [impl |-> i, config |-> c, tun |-> t, env |-> e, script |-> sc]

ConfigA == CHOOSE c \in ConfigChoices : c.protocol = "vnc"

\* The runs of the model: every handshake script with every configuration,
\* and the forwarding scripts with one configuration.
Scenarios ==
    {Scenario(i, c, t, NoForward, sc) :
        i \in {"tunnel", "guac"}, c \in ConfigChoices,
        t \in {NewTunnel(<<>>), NewTunnel(CallbackOptions)},
        sc \in HandshakeScripts}
    \cup
    {Scenario(i, ConfigA, NewTunnel(CallbackOptions), e, sc) :
        i \in {"tunnel", "guac"}, e \in {Quiet, Cancelling, Breaking},
        sc \in ForwardScripts}
    \cup
    {Scenario("tunnel", ConfigA, t, e, sc) :
        t \in {NewTunnel(GuacdKeepaliveOptions), NewTunnel(WsKeepaliveOptions)},
        e \in {Quiet, Cancelling}, sc \in KeepaliveScripts}
    \cup
    {Scenario("tunnel", ConfigA, t, Cancelling, sc) :
        t \in {NewTunnel(GuacdKeepaliveZeroOptions),
               NewTunnel(WsKeepaliveZeroOptions)},
        sc \in KeepaliveScripts}

\* The tunnel NewTunnel returns, in the run s.
InitTunnel(s) ==
    /\ impl = s.impl
    /\ config = s.config
    /\ tun = s.tun
    /\ env = s.env
    /\ script = s.script
    /\ guacd = [rx |-> "", end |-> "open", closed |-> FALSE, tx |-> <<>>,
                sent |-> ""]
    /\ ws = [rx |-> <<>>, sent |-> 0, state |-> "ok", closed |-> FALSE,
             tx |-> <<>>, deadline |-> 0, idle |-> 0, pings |-> 0,
             pongs |-> 0]
    /\ err = Nil
    /\ connId = ""
    /\ main = [pc |-> "new", buf |-> "", selectResponse |-> "",
               connectResponse |-> "", result |-> Nil, fwdResult |-> Nil,
               readErr |-> Nil, readStage |-> ""]
    /\ ctxDone = FALSE
    /\ g2w = [pc |-> "off", buf |-> "", cur |-> "", pending |-> Nil,
              next |-> "", once |-> FALSE, failed |-> FALSE, pulled |-> "",
              eofReads |-> 0]
    /\ w2g = [pc |-> "off", cur |-> "", pending |-> Nil, next |-> "",
              failed |-> FALSE]
    /\ kaG = [pc |-> "off", ticks |-> 0]
    /\ kaW = [pc |-> "off", ticks |-> 0]
    /\ closes = 0
    /\ calls = [onConnect |-> <<>>, onReadFromGuacd |-> <<>>,
                onReadFromWs |-> <<>>, onDisconnect |-> <<>>,
                record |-> <<>>, recorderClose |-> <<>>]
    /\ crashed = FALSE

\* The codec when the model runs the tunnel: not used by itself.
CodecOff == [pc |-> "off"]

Init ==
    /\ \E s \in Scenarios : InitTunnel(s)
    /\ codec = CodecOff
    /\ hc = [pc |-> "off"]
    /\ fr = [pc |-> "off"]

(***************************************************************************)
(* The two connections                                                     *)
(***************************************************************************)

\* The writes Handshake has made to the upstream.
HsWrites == SelectSeq(guacd.tx, LAMBDA w : w.by = "hs")

SelectWritten == Len(HsWrites) >= 1

\* Package tunnel writes size..connect in one Write, package guac in five.
ConnectWritten == Len(HsWrites) >= (IF impl = "tunnel" THEN 2 ELSE 6)

PhaseReached(p) ==
    \/ p = 0
    \/ p = 1 /\ SelectWritten
    \/ p = 2 /\ ConnectWritten

\* The upstream does the next thing its script says: it sends bytes, closes
\* its end (the tunnel reads end-of-stream), or the connection breaks.
UpstreamStep ==
    /\ ~crashed
    /\ script # <<>>
    /\ PhaseReached(Head(script).phase)
    /\ guacd.end = "open"
    /\ script' = Tail(script)
    /\ guacd' = CASE Head(script).kind = "send" ->
                       [guacd EXCEPT !.rx = @ \o Head(script).data,
                                     !.sent = @ \o Head(script).data]
                  [] Head(script).kind = "eof" -> [guacd EXCEPT !.end = "eof"]
                  [] Head(script).kind = "err" -> [guacd EXCEPT !.end = "err"]
    /\ UNCHANGED <<static, ws, err, connId, main, ctxDone, g2w, w2g, kaG, kaW,
                   closes, calls, crashed>>

\* net.Conn.Write succeeds unless the connection is closed or broken.
GuacdWritable == ~guacd.closed /\ guacd.end # "err"

GuacdWriteError == IF guacd.closed THEN ErrClosed ELSE ErrReset

GuacdWrite(g, by, data) == [g EXCEPT !.tx = Append(@, [by |-> by, data |-> data])]

\* What bufio.Reader.ReadString(';') / ReadBytes(';') gives for a reader
\* holding buf: the bytes up to the first ';' from the buffer; otherwise the
\* reader takes what the connection has and looks again; with no ';' it
\* returns everything it holds with the connection's error.
ReadAvail(buf) ==
    IF Index(buf, ";") # -1 \/ guacd.closed THEN buf ELSE buf \o guacd.rx

\* The bytes a read by a reader holding buf takes off the connection.
ReadPulls(buf) ==
    IF Index(buf, ";") # -1 \/ guacd.closed THEN "" ELSE guacd.rx

\* The read returns (it does not block).
ReadReturns(buf) ==
    \/ Index(ReadAvail(buf), ";") # -1
    \/ guacd.closed
    \/ guacd.end # "open"

\* A reader that throws away what it holds after the delimiter.
ReadDelimDiscarding(buf) ==
    LET avail == ReadAvail(buf)
        i     == Index(avail, ";")
    IN IF i # -1
       THEN [data |-> Slice(avail, 0, i + 1), rest |-> "", err |-> Nil]
       ELSE [data |-> avail, rest |-> "",
             err  |-> IF guacd.closed THEN ErrClosed
                      ELSE IF guacd.end = "eof" THEN IoEOF ELSE ErrReset]

ReadDelim(buf) ==
    LET avail == ReadAvail(buf)
        i     == Index(avail, ";")
    IN IF i # -1
       THEN [data |-> Slice(avail, 0, i + 1),
             rest |-> Slice(avail, i + 1, Len(avail)), err |-> Nil]
       ELSE [data |-> avail, rest |-> "",
             err  |-> IF guacd.closed THEN ErrClosed
                      ELSE IF guacd.end = "eof" THEN IoEOF ELSE ErrReset]

\* The downstream sends its next message.
WsSend ==
    /\ ~crashed
    /\ main.pc \in {"fwdWait", "fwdDone"}
    /\ ws.state = "ok" /\ ~ws.closed
    /\ ws.sent < Len(WsScript)
    /\ ws' = [ws EXCEPT !.rx = Append(@, WsScript[ws.sent + 1]), !.sent = @ + 1]
    /\ UNCHANGED <<static, script, guacd, err, connId, main, ctxDone, g2w, w2g,
                   kaG, kaW, closes, calls, crashed>>

\* The downstream connection breaks: reads and writes fail from now on.
WsBreak ==
    /\ ~crashed
    /\ env.wsBreak
    /\ main.pc \in {"fwdWait", "fwdDone"}
    /\ ws.state = "ok" /\ ~ws.closed
    /\ ws' = [ws EXCEPT !.state = "broken"]
    /\ UNCHANGED <<static, script, guacd, err, connId, main, ctxDone, g2w, w2g,
                   kaG, kaW, closes, calls, crashed>>

\* Time is in seconds.  ws.deadline is the length of the read deadline in
\* force (0: none) and ws.idle the time since it was last set: the ticker
\* of wsKeepalive measures it.
\* The read deadline passes: reads fail.
WsTimeout ==
    /\ ~crashed
    /\ ws.deadline > 0
    /\ ws.idle >= ws.deadline
    /\ ws.state = "ok" /\ ~ws.closed
    /\ ws' = [ws EXCEPT !.state = "timeout"]
    /\ UNCHANGED <<static, script, guacd, err, connId, main, ctxDone, g2w, w2g,
                   kaG, kaW, closes, calls, crashed>>

WsWritable == ws.state # "broken" /\ ~ws.closed

WsWriteError == IF ws.closed THEN ErrClosed ELSE ErrReset

\* A ReadMessage that a Close of the connection does not wake.
WsReadBlocksOnClose == ws.rx # <<>> \/ ws.state # "ok"

\* ReadMessage returns: with an error once closed, else with the next message,
\* else with the error of a broken or timed-out connection; else it blocks.
WsReadReturns == ws.closed \/ ws.rx # <<>> \/ ws.state # "ok"

WsReadError ==
    IF ws.closed THEN ErrClosed
    ELSE IF ws.rx # <<>> THEN Nil
    ELSE IF ws.state = "timeout" THEN ErrTimeout ELSE ErrReset

(***************************************************************************)
(* Tunnel.Handshake                                                        *)
(***************************************************************************)

HsFail(e) == [main EXCEPT !.pc = "hsDone", !.result = e]

\* What br.ReadString returned with, kept for the properties: the error of
\* the last read of Handshake and which response it was reading.
HsRead(m, r, stage) == [m EXCEPT !.readErr = r.err, !.readStage = stage]

\* br := bufio.NewReader(t.guacd); write select.
HsWriteSelect ==
    /\ ~crashed
    /\ main.pc = "new"
    /\ IF GuacdWritable
       THEN /\ guacd' = GuacdWrite(guacd, "hs", SelectInstruction(config))
            /\ main' = [main EXCEPT !.pc = "hsReadSelect", !.buf = ""]
       ELSE /\ main' = HsFail(Err("send select instruction error: "
                                   \o GuacdWriteError[1]))
            /\ UNCHANGED guacd
    /\ UNCHANGED <<static, script, ws, err, connId, ctxDone, g2w, w2g, kaG, kaW,
                   closes, calls, crashed>>

\* A read of Handshake's reader that finds no ';' yet takes the bytes the
\* connection has and goes on waiting.
HsFill ==
    /\ ~crashed
    /\ main.pc \in {"hsReadSelect", "hsReadReady"}
    /\ ~ReadReturns(main.buf)
    /\ guacd.rx # ""
    /\ main' = [main EXCEPT !.buf = @ \o guacd.rx]
    /\ guacd' = [guacd EXCEPT !.rx = ""]
    /\ UNCHANGED <<static, script, ws, err, connId, ctxDone, g2w, w2g, kaG, kaW,
                   closes, calls, crashed>>

\* A Handshake that sends connect before the instructions that describe the
\* client.
FullConnectFirst(argsInstr) ==
    <<ConnectInstruction(config, Args(argsInstr)), SizeInstruction(config),
      AudioInstruction(config), VideoInstruction(config),
      ImageInstruction(config)>>

\* The instructions Handshake writes after the select response, as one
\* Write each (package guac) or as one Write of them all (package tunnel).
FullConnect(argsInstr) ==
    <<SizeInstruction(config), AudioInstruction(config), VideoInstruction(config),
      ImageInstruction(config), ConnectInstruction(config, Args(argsInstr))>>

RECURSIVE Concat(_)
Concat(strs) == IF strs = <<>> THEN "" ELSE Head(strs) \o Concat(Tail(strs))

\* Package tunnel, from br.ReadString(';') of the select response to the
\* Write of size..connect.
HsSelectResponseTunnel(r) ==
    IF r.err # Nil /\ r.err # IoEOF
    THEN /\ main' = HsRead(HsFail(Err("read select instruction response error: "
                                \o r.err[1])), r, "select")
         /\ UNCHANGED <<guacd, crashed>>
    ELSE IF ErrorPanics(r.data) \/ ArgsPanics(r.data)
    THEN /\ crashed' = TRUE
         /\ main' = HsRead([main EXCEPT !.selectResponse = r.data], r, "select")
         /\ guacd' = [guacd EXCEPT !.rx = Slice(@, Len(ReadPulls(main.buf)), Len(@))]
    ELSE IF Error(r.data) # Nil
    THEN /\ main' = HsRead([HsFail(Error(r.data)) EXCEPT !.selectResponse = r.data,
                                                  !.buf = r.rest], r, "select")
         /\ guacd' = [guacd EXCEPT !.rx = Slice(@, Len(ReadPulls(main.buf)), Len(@))]
         /\ UNCHANGED crashed
    ELSE IF GuacdWritable
    THEN /\ main' = HsRead([main EXCEPT !.pc = "hsReadReady", !.selectResponse = r.data,
                                 !.buf = r.rest], r, "select")
         /\ guacd' = GuacdWrite(
                [guacd EXCEPT !.rx = Slice(@, Len(ReadPulls(main.buf)), Len(@))],
                "hs", Concat(FullConnect(r.data)))
         /\ UNCHANGED crashed
    ELSE /\ main' = HsRead([HsFail(Err("send full connect instruction error: "
                                 \o GuacdWriteError[1]))
                        EXCEPT !.selectResponse = r.data, !.buf = r.rest], r, "select")
         /\ guacd' = [guacd EXCEPT !.rx = Slice(@, Len(ReadPulls(main.buf)), Len(@))]
         /\ UNCHANGED crashed

\* Package guac: no look at the response before size, audio, video and image
\* are written; Args of the response is taken only for connect.
HsSelectResponseGuac(r) ==
    LET g0 == [guacd EXCEPT !.rx = Slice(@, Len(ReadPulls(main.buf)), Len(@))]
        g4 == GuacdWrite(GuacdWrite(GuacdWrite(GuacdWrite(g0,
                  "hs", SizeInstruction(config)),
                  "hs", AudioInstruction(config)),
                  "hs", VideoInstruction(config)),
                  "hs", ImageInstruction(config))
    IN IF r.err # Nil /\ r.err # IoEOF
       THEN /\ main' = HsRead(HsFail(Err("read select instruction response error: "
                                   \o r.err[1])), r, "select")
            /\ UNCHANGED <<guacd, crashed>>
       ELSE IF ~GuacdWritable
       THEN /\ main' = HsRead([HsFail(Err("send size instruction error: "
                                    \o GuacdWriteError[1]))
                           EXCEPT !.selectResponse = r.data, !.buf = r.rest], r, "select")
            /\ guacd' = g0
            /\ UNCHANGED crashed
       ELSE IF ArgsPanics(r.data)
       THEN /\ crashed' = TRUE
            /\ main' = HsRead([main EXCEPT !.selectResponse = r.data], r, "select")
            /\ guacd' = g4
       ELSE /\ main' = HsRead([main EXCEPT !.pc = "hsReadReady",
                                    !.selectResponse = r.data, !.buf = r.rest], r, "select")
            /\ guacd' = GuacdWrite(g4, "hs",
                            ConnectInstruction(config, Args(r.data)))
            /\ UNCHANGED crashed

HsReadSelect ==
    /\ ~crashed
    /\ main.pc = "hsReadSelect"
    /\ ReadReturns(main.buf)
    /\ IF impl = "tunnel" THEN HsSelectResponseTunnel(ReadDelim(main.buf))
       ELSE HsSelectResponseGuac(ReadDelim(main.buf))
    /\ UNCHANGED <<static, script, ws, err, connId, ctxDone, g2w, w2g, kaG, kaW,
                   closes, calls>>

\* A Handshake that stores the connection id and calls on-connect as soon as
\* the connect response has an argument, before it looks for an error.
HsReadReadyStoresFirst ==
    /\ ~crashed
    /\ main.pc = "hsReadReady"
    /\ ReadReturns(main.buf)
    /\ LET r  == ReadDelim(main.buf)
           ok == ~ArgsPanics(r.data) /\ ~ErrorPanics(r.data)
                 /\ Len(Args(r.data)) > 0
       IN /\ ok
          /\ connId' = Value(Args(r.data)[1])
          /\ calls' = IF tun.onConnect # Nil
                      THEN [calls EXCEPT !.onConnect = Append(@, connId')]
                      ELSE calls
          /\ main' = HsRead([main EXCEPT
                                !.pc = "hsDone",
                                !.result = IF r.err # Nil /\ r.err # IoEOF
                                           THEN Err("read connect instruction "
                                                    \o "response error: "
                                                    \o r.err[1])
                                           ELSE Error(r.data),
                                !.connectResponse = r.data,
                                !.buf = r.rest], r, "connect")
          /\ guacd' = [guacd EXCEPT
                          !.rx = Slice(@, Len(ReadPulls(main.buf)), Len(@))]
    /\ UNCHANGED <<static, script, ws, err, ctxDone, g2w, w2g, kaG, kaW, closes,
                   crashed>>

\* From br.ReadString(';') of the connect response to the return.
HsReadReady ==
    /\ ~crashed
    /\ main.pc = "hsReadReady"
    /\ ReadReturns(main.buf)
    /\ LET r  == ReadDelim(main.buf)
           g0 == [guacd EXCEPT !.rx = Slice(@, Len(ReadPulls(main.buf)), Len(@))]
       IN IF r.err # Nil /\ r.err # IoEOF
          THEN /\ main' = HsRead(HsFail(Err("read connect instruction response error: "
                                      \o r.err[1])), r, "connect")
               /\ UNCHANGED <<guacd, connId, calls, crashed>>
          ELSE IF (impl = "tunnel" /\ ErrorPanics(r.data)) \/ ArgsPanics(r.data)
          THEN /\ crashed' = TRUE
               /\ main' = HsRead([main EXCEPT !.connectResponse = r.data], r, "connect")
               /\ guacd' = g0
               /\ UNCHANGED <<connId, calls>>
          ELSE IF impl = "tunnel" /\ Error(r.data) # Nil
          THEN /\ main' = HsRead([HsFail(Error(r.data)) EXCEPT !.connectResponse = r.data,
                                                        !.buf = r.rest], r, "connect")
               /\ guacd' = g0
               /\ UNCHANGED <<connId, calls, crashed>>
          ELSE IF Len(Args(r.data)) = 0
          THEN /\ main' = HsRead([HsFail(Err("no connection ID received"))
                              EXCEPT !.connectResponse = r.data, !.buf = r.rest], r, "connect")
               /\ guacd' = g0
               /\ UNCHANGED <<connId, calls, crashed>>
          ELSE /\ connId' = Value(Args(r.data)[1])
               /\ calls' = IF tun.onConnect # Nil
                           THEN [calls EXCEPT !.onConnect = Append(@, connId')]
                           ELSE calls
               /\ main' = HsRead([main EXCEPT !.pc = "hsDone", !.result = Nil,
                                       !.connectResponse = r.data, !.buf = r.rest], r, "connect")
               /\ guacd' = g0
               /\ UNCHANGED crashed
    /\ UNCHANGED <<static, script, ws, err, ctxDone, g2w, w2g, kaG, kaW, closes>>

(***************************************************************************)
(* Tunnel.Forward                                                          *)
(***************************************************************************)

\* newCtx, cancel := context.WithCancel(ctx), the go statements, and the
\* caller's goroutine at <-newCtx.Done().  Forward is called on a tunnel whose
\* Handshake returned nil.
ForwardStart ==
    /\ ~crashed
    /\ env.forward
    /\ main.pc = "hsDone" /\ main.result = Nil
    /\ main' = [main EXCEPT !.pc = "fwdWait"]
    /\ ctxDone' = FALSE
    /\ kaG' = [kaG EXCEPT !.pc = IF tun.guacdKeepaliveInterval > 0
                                 THEN "wait" ELSE "off"]
    /\ kaW' = [kaW EXCEPT !.pc = IF tun.wsKeepaliveInterval > 0
                                 THEN "init" ELSE "off"]
    /\ g2w' = [g2w EXCEPT !.pc = "top", !.buf = ""]
    /\ w2g' = [w2g EXCEPT !.pc = "top"]
    /\ UNCHANGED <<static, script, guacd, ws, err, connId, closes, calls, crashed>>

\* The context the caller passed to Forward is cancelled.
CallerCancel ==
    /\ ~crashed
    /\ env.cancel
    /\ main.pc = "fwdWait"
    /\ ~ctxDone
    /\ ctxDone' = TRUE
    /\ UNCHANGED <<static, script, guacd, ws, err, connId, main, g2w, w2g, kaG,
                   kaW, closes, calls, crashed>>

\* <-newCtx.Done() returns; return t.err.
ForwardReturn ==
    /\ ~crashed
    /\ main.pc = "fwdWait"
    /\ ctxDone
    /\ main' = [main EXCEPT !.pc = "fwdDone", !.fwdResult = err]
    /\ UNCHANGED <<static, script, guacd, ws, err, connId, ctxDone, g2w, w2g,
                   kaG, kaW, closes, calls, crashed>>

(***************************************************************************)
(* Tunnel.setError, as the two steps a goroutine takes: the test of t.err  *)
(* and the store.  No lock is held between them.                           *)
(***************************************************************************)

\* if t.err == nil: the goroutine p goes on to the store (pc "setErr"), or
\* skips it and goes to next, where it goes after setError: "write", or
\* "done" when it returns.  A goroutine that returns runs its deferred
\* cancel() in the same step: ctxDone' is set wherever a pc becomes "done".
SetErrorTest(p, e, next) ==
    IF err = Nil
    THEN [p EXCEPT !.pc = "setErr", !.pending = e, !.next = next,
                   !.failed = (next = "done")]
    ELSE [p EXCEPT !.pc = next, !.failed = (next = "done")]

(***************************************************************************)
(* Tunnel.guacdToWs                                                        *)
(***************************************************************************)

\* t.onReadFromGuacd(t.connId, b), if set.
OnReadFromGuacd(b) ==
    IF tun.onReadFromGuacd # Nil
    THEN [calls EXCEPT !.onReadFromGuacd = Append(@, <<connId, b>>)]
    ELSE calls

\* select { case <-ctx.Done(): return; default: ... }: the goroutine returns,
\* or goes on to its blocking read.
LoopTop(p) == [p EXCEPT !.pc = IF ctxDone THEN "done" ELSE "read"]

\* The first pass through the select of the loop.
G2wTop ==
    /\ ~crashed
    /\ g2w.pc = "top"
    /\ g2w' = LoopTop(g2w)
    /\ UNCHANGED <<static, script, guacd, ws, err, connId, main, ctxDone, w2g,
                   kaG, kaW, closes, calls, crashed>>

\* ReadBytes finds no ';' yet: the reader takes what the connection has.
G2wFill ==
    /\ ~crashed
    /\ g2w.pc = "read"
    /\ ~ReadReturns(g2w.buf)
    /\ guacd.rx # ""
    /\ g2w' = [g2w EXCEPT !.buf = @ \o guacd.rx, !.pulled = @ \o guacd.rx]
    /\ guacd' = [guacd EXCEPT !.rx = ""]
    /\ UNCHANGED <<static, script, ws, err, connId, main, ctxDone, w2g, kaG, kaW,
                   closes, calls, crashed>>

\* The once.Do of package tunnel on the first instruction read: Error() of
\* it, and setError of what it gives.  Then the callback.
G2wFirstInstruction(p, b) ==
    IF ErrorPanics(b)
    THEN /\ crashed' = TRUE
         /\ g2w' = p
         /\ UNCHANGED calls
    ELSE IF Error(b) # Nil
    THEN /\ g2w' = SetErrorTest(p, Error(b), "write")
         /\ calls' = IF err = Nil THEN calls ELSE OnReadFromGuacd(b)
         /\ UNCHANGED crashed
    ELSE /\ g2w' = [p EXCEPT !.pc = "write"]
         /\ calls' = OnReadFromGuacd(b)
         /\ UNCHANGED crashed

\* A guacdToWs without the sync.Once: every instruction read is looked at
\* for an error.
G2wReadInspectsAll ==
    /\ ~crashed
    /\ g2w.pc = "read"
    /\ ReadReturns(g2w.buf)
    /\ LET r == ReadDelim(g2w.buf)
           p == [g2w EXCEPT !.buf = r.rest, !.cur = r.data,
                            !.pulled = @ \o ReadPulls(g2w.buf)]
       IN /\ guacd' = [guacd EXCEPT
                          !.rx = Slice(@, Len(ReadPulls(g2w.buf)), Len(@))]
          /\ IF r.err = IoEOF
             THEN /\ g2w' = [p EXCEPT !.pc = "done", !.eofReads = @ + 1]
                  /\ UNCHANGED <<calls, crashed>>
             ELSE IF r.err # Nil
             THEN /\ g2w' = SetErrorTest(p,
                        Err("read data from guacd error: " \o r.err[1]), "done")
                  /\ UNCHANGED <<calls, crashed>>
             ELSE G2wFirstInstruction([p EXCEPT !.once = TRUE], r.data)
    /\ ctxDone' = (ctxDone \/ g2w'.pc = "done")
    /\ UNCHANGED <<static, script, ws, err, connId, main, w2g, kaG, kaW, closes>>

\* br.ReadBytes(';') returns; up to the callback.
G2wRead ==
    /\ ~crashed
    /\ g2w.pc = "read"
    /\ ReadReturns(g2w.buf)
    /\ LET r == ReadDelim(g2w.buf)
           p == [g2w EXCEPT !.buf = r.rest, !.cur = r.data,
                            !.pulled = @ \o ReadPulls(g2w.buf)]
       IN /\ guacd' = [guacd EXCEPT
                          !.rx = Slice(@, Len(ReadPulls(g2w.buf)), Len(@))]
          /\ IF r.err = IoEOF /\ impl = "tunnel"
             THEN \* if err == io.EOF { return }
                  /\ g2w' = [p EXCEPT !.pc = "done", !.eofReads = @ + 1]
                  /\ UNCHANGED <<calls, crashed>>
             ELSE IF r.err = IoEOF
             THEN \* package guac: err != nil && err != io.EOF is false
                  /\ g2w.eofReads < MaxEofReads
                  /\ g2w' = [p EXCEPT !.pc = "write", !.eofReads = @ + 1]
                  /\ calls' = OnReadFromGuacd(r.data)
                  /\ UNCHANGED crashed
             ELSE IF r.err # Nil
             THEN /\ g2w' = SetErrorTest(p,
                        Err("read data from guacd error: " \o r.err[1]), "done")
                  /\ UNCHANGED <<calls, crashed>>
             ELSE IF impl = "tunnel" /\ ~g2w.once
             THEN G2wFirstInstruction([p EXCEPT !.once = TRUE], r.data)
             ELSE /\ g2w' = [p EXCEPT !.pc = "write"]
                  /\ calls' = OnReadFromGuacd(r.data)
                  /\ UNCHANGED crashed
    /\ ctxDone' = (ctxDone \/ g2w'.pc = "done")
    /\ UNCHANGED <<static, script, ws, err, connId, main, w2g, kaG, kaW, closes>>

\* t.err = err of setError; after the first-instruction check the callback
\* follows.
G2wStore ==
    /\ ~crashed
    /\ g2w.pc = "setErr"
    /\ err' = g2w.pending
    /\ g2w' = [g2w EXCEPT !.pc = g2w.next]
    /\ calls' = IF g2w.next = "write" THEN OnReadFromGuacd(g2w.cur) ELSE calls
    /\ ctxDone' = (ctxDone \/ g2w'.pc = "done")
    /\ UNCHANGED <<static, script, guacd, ws, connId, main, w2g, kaG, kaW, closes,
                   crashed>>

\* t.ws.WriteMessage(websocket.TextMessage, b), and on to the select of the
\* next pass.
G2wWrite ==
    /\ ~crashed
    /\ g2w.pc = "write"
    /\ IF WsWritable
       THEN /\ ws' = [ws EXCEPT !.tx = Append(@, g2w.cur)]
            /\ g2w' = LoopTop(g2w)
       ELSE /\ g2w' = SetErrorTest(g2w,
                  Err("write data to ws error: " \o WsWriteError[1]), "done")
            /\ UNCHANGED ws
    /\ ctxDone' = (ctxDone \/ g2w'.pc = "done")
    /\ UNCHANGED <<static, script, guacd, err, connId, main, w2g, kaG, kaW,
                   closes, calls, crashed>>

\* guacdToWs is not blocked: it is not in ReadBytes, or ReadBytes can return
\* or take bytes off the connection.
G2wCanStep ==
    \/ g2w.pc \in {"top", "setErr", "write"}
    \/ g2w.pc = "read" /\ (ReadReturns(g2w.buf) \/ guacd.rx # "")

(***************************************************************************)
(* Tunnel.wsToGuacd                                                        *)
(***************************************************************************)

\* t.onReadFromWs(t.connId, data), if set.
OnReadFromWs(data) ==
    IF tun.onReadFromWs # Nil
    THEN [calls EXCEPT !.onReadFromWs = Append(@, <<connId, data>>)]
    ELSE calls

W2gTop ==
    /\ ~crashed
    /\ w2g.pc = "top"
    /\ w2g' = LoopTop(w2g)
    /\ UNCHANGED <<static, script, guacd, ws, err, connId, main, ctxDone, g2w,
                   kaG, kaW, closes, calls, crashed>>

\* t.ws.ReadMessage() returns; up to the callback.
W2gRead ==
    /\ ~crashed
    /\ w2g.pc = "read"
    /\ WsReadReturns
    /\ IF WsReadError # Nil
       THEN /\ w2g' = SetErrorTest(w2g,
                  Err("read data from ws error: " \o WsReadError[1]), "done")
            /\ UNCHANGED <<ws, calls>>
       ELSE /\ w2g' = [w2g EXCEPT !.pc = "write", !.cur = Head(ws.rx)]
            /\ ws' = [ws EXCEPT !.rx = Tail(@)]
            /\ calls' = OnReadFromWs(Head(ws.rx))
    /\ ctxDone' = (ctxDone \/ w2g'.pc = "done")
    /\ UNCHANGED <<static, script, guacd, err, connId, main, g2w, kaG, kaW,
                   closes, crashed>>

W2gStore ==
    /\ ~crashed
    /\ w2g.pc = "setErr"
    /\ err' = w2g.pending
    /\ w2g' = [w2g EXCEPT !.pc = w2g.next]
    /\ ctxDone' = (ctxDone \/ w2g'.pc = "done")
    /\ UNCHANGED <<static, script, guacd, ws, connId, main, g2w, kaG, kaW,
                   closes, calls, crashed>>

\* t.guacd.Write(data), and on to the select of the next pass.
W2gWrite ==
    /\ ~crashed
    /\ w2g.pc = "write"
    /\ IF GuacdWritable
       THEN /\ guacd' = GuacdWrite(guacd, "w2g", w2g.cur)
            /\ w2g' = LoopTop(w2g)
       ELSE /\ w2g' = SetErrorTest(w2g,
                  Err("write data to guacd error: " \o GuacdWriteError[1]), "done")
            /\ UNCHANGED guacd
    /\ ctxDone' = (ctxDone \/ w2g'.pc = "done")
    /\ UNCHANGED <<static, script, ws, err, connId, main, g2w, kaG, kaW, closes,
                   calls, crashed>>

\* wsToGuacd is not blocked: it is not in ReadMessage, or ReadMessage can
\* return.
W2gCanStep ==
    \/ w2g.pc \in {"top", "setErr", "write"}
    \/ w2g.pc = "read" /\ WsReadReturns

(***************************************************************************)
(* The keep-alive goroutines                                               *)
(***************************************************************************)

Nop == NewInstruction("nop", <<>>)

Disconnect == NewInstruction("disconnect", <<>>)

\* A keep-alive that writes the nop twice on a tick.
GuacdKeepaliveTickTwice ==
    /\ ~crashed
    /\ kaG.pc = "wait"
    /\ kaG.ticks < MaxTicks
    /\ kaG' = [kaG EXCEPT !.ticks = @ + 1]
    /\ guacd' = IF GuacdWritable
                THEN GuacdWrite(GuacdWrite(guacd, "ka", Nop), "ka", Nop)
                ELSE guacd
    /\ UNCHANGED <<static, script, ws, err, connId, main, ctxDone, g2w, w2g, kaW,
                   closes, calls, crashed>>

\* case <-ticker.C: _, _ = t.guacd.Write(protocol.Nop.Byte())
GuacdKeepaliveTick ==
    /\ ~crashed
    /\ kaG.pc = "wait"
    /\ kaG.ticks < MaxTicks
    /\ kaG' = [kaG EXCEPT !.ticks = @ + 1]
    /\ guacd' = IF GuacdWritable THEN GuacdWrite(guacd, "ka", Nop) ELSE guacd
    /\ UNCHANGED <<static, script, ws, err, connId, main, ctxDone, g2w, w2g, kaW,
                   closes, calls, crashed>>

\* case <-ctx.Done(): return
GuacdKeepaliveExit ==
    /\ ~crashed
    /\ kaG.pc = "wait"
    /\ ctxDone
    /\ kaG' = [kaG EXCEPT !.pc = "done"]
    /\ UNCHANGED <<static, script, guacd, ws, err, connId, main, ctxDone, g2w,
                   w2g, kaW, closes, calls, crashed>>

\* A wsKeepalive whose deadline is one interval, whatever the threshold.
WsKeepaliveInitOneInterval ==
    /\ ~crashed
    /\ kaW.pc = "init"
    /\ kaW' = [kaW EXCEPT !.pc = "wait"]
    /\ ws' = [ws EXCEPT !.deadline = tun.wsKeepaliveInterval, !.idle = 0]
    /\ UNCHANGED <<static, script, guacd, err, connId, main, ctxDone, g2w, w2g,
                   kaG, closes, calls, crashed>>

\* The start of wsKeepalive: the first SetReadDeadline and the pong handler.
WsKeepaliveInit ==
    /\ ~crashed
    /\ kaW.pc = "init"
    /\ kaW' = [kaW EXCEPT !.pc = "wait"]
    /\ ws' = [ws EXCEPT !.deadline = tun.wsKeepaliveInterval
                                        * tun.wsKeepaliveThreshold,
                        !.idle = 0]
    /\ UNCHANGED <<static, script, guacd, err, connId, main, ctxDone, g2w, w2g,
                   kaG, closes, calls, crashed>>

\* case <-ticker.C: _ = t.ws.WriteControl(websocket.PingMessage, ...)
WsKeepaliveTick ==
    /\ ~crashed
    /\ kaW.pc = "wait"
    /\ kaW.ticks < MaxTicks
    /\ kaW' = [kaW EXCEPT !.ticks = @ + 1]
    /\ ws' = [ws EXCEPT !.idle = @ + tun.wsKeepaliveInterval,
                        !.pings = IF WsWritable THEN @ + 1 ELSE @]
    /\ UNCHANGED <<static, script, guacd, err, connId, main, ctxDone, g2w, w2g,
                   kaG, closes, calls, crashed>>

\* The downstream answers a ping before the deadline has passed, and the
\* ReadMessage of wsToGuacd runs the pong handler: SetReadDeadline again.
WsPong ==
    /\ ~crashed
    /\ w2g.pc = "read"
    /\ ws.state = "ok" /\ ~ws.closed
    /\ ws.pongs < ws.pings
    /\ ws.idle < ws.deadline
    /\ ws' = [ws EXCEPT !.pongs = @ + 1, !.idle = 0]
    /\ UNCHANGED <<static, script, guacd, err, connId, main, ctxDone, g2w, w2g,
                   kaG, kaW, closes, calls, crashed>>

WsKeepaliveExit ==
    /\ ~crashed
    /\ kaW.pc = "wait"
    /\ ctxDone
    /\ kaW' = [kaW EXCEPT !.pc = "done"]
    /\ UNCHANGED <<static, script, guacd, ws, err, connId, main, ctxDone, g2w,
                   w2g, kaG, closes, calls, crashed>>

(***************************************************************************)
(* Tunnel.Close                                                            *)
(***************************************************************************)

\* A Close that clears the connection id before it calls on-disconnect, and
\* closes the upstream before it writes disconnect.
CloseClearsFirst ==
    /\ ~crashed
    /\ main.pc \in {"hsDone", "fwdWait", "fwdDone"}
    /\ closes < env.closes
    /\ closes' = closes + 1
    /\ guacd' = [guacd EXCEPT !.closed = TRUE]
    /\ ws' = [ws EXCEPT !.closed = TRUE]
    /\ calls' = IF tun.onDisconnect # Nil
                THEN [calls EXCEPT !.onDisconnect = Append(@, "")]
                ELSE calls
    /\ connId' = ""
    /\ UNCHANGED <<static, script, err, main, ctxDone, g2w, w2g, kaG, kaW, crashed>>

\* Called once Handshake has returned: after Forward, or from another
\* goroutine while Forward runs.
Close ==
    /\ ~crashed
    /\ main.pc \in {"hsDone", "fwdWait", "fwdDone"}
    /\ closes < env.closes
    /\ closes' = closes + 1
    /\ guacd' = [(IF GuacdWritable THEN GuacdWrite(guacd, "close", Disconnect)
                  ELSE guacd) EXCEPT !.closed = TRUE]
    /\ ws' = [ws EXCEPT !.closed = TRUE]
    /\ calls' = IF tun.onDisconnect # Nil
                THEN [calls EXCEPT !.onDisconnect = Append(@, connId)]
                ELSE calls
    /\ connId' = ""
    /\ UNCHANGED <<static, script, err, main, ctxDone, g2w, w2g, kaG, kaW, crashed>>

(***************************************************************************)
(* The specification                                                       *)
(***************************************************************************)

Next ==
    \/ UpstreamStep
    \/ WsSend
    \/ WsBreak
    \/ WsTimeout
    \/ CallerCancel
    \/ HsWriteSelect
    \/ HsFill
    \/ HsReadSelect
    \/ HsReadReady
    \/ ForwardStart
    \/ ForwardReturn
    \/ G2wTop
    \/ G2wFill
    \/ G2wRead
    \/ G2wStore
    \/ G2wWrite
    \/ W2gTop
    \/ W2gRead
    \/ W2gStore
    \/ W2gWrite
    \/ GuacdKeepaliveTick
    \/ GuacdKeepaliveExit
    \/ WsKeepaliveInit
    \/ WsKeepaliveTick
    \/ WsPong
    \/ WsKeepaliveExit
    \/ Close

Spec == Init /\ [][Next]_vars

(***************************************************************************)
(* The codec by itself: an instruction is built from an opcode and         *)
(* arguments, then decoded, then asked for its error.  ver is the codec:   *)
(* "protocol" (package protocol) or "guac" (package guac, which has no     *)
(* Error).                                                                 *)
(***************************************************************************)

MaxLen == 2
MaxArgs == 2

\* The characters strings are made of; the last is one two-byte rune.
CodecAlphabet == {"a", ",", ";", ".", Lead2 \o Cont}

RECURSIVE StringsUpTo(_)
StringsUpTo(n) ==
    IF n = 0 THEN {""}
    ELSE StringsUpTo(n - 1)
         \cup {x \o c : x \in StringsUpTo(n - 1), c \in CodecAlphabet}

RECURSIVE SeqsUpTo(_, _)
SeqsUpTo(S, n) ==
    IF n = 0 THEN {<<>>}
    ELSE SeqsUpTo(S, n - 1)
         \cup {Append(q, x) : q \in SeqsUpTo(S, n - 1), x \in S}

CodecOpcodes == StringsUpTo(MaxLen) \cup {"error", "nop", "disconnect"}

CodecArgValues == StringsUpTo(1) \cup {"769", "42", "denied"}

\* The tunnel while the codec is used by itself: made, and left alone.
CodecRun == Scenario("tunnel", ConfigA, NewTunnel(<<>>), NoForward, <<>>)

CodecInit ==
    /\ InitTunnel(CodecRun)
    /\ \E v \in {"protocol", "guac"}, o \in CodecOpcodes,
          a \in SeqsUpTo(CodecArgValues, MaxArgs) :
          codec = [pc |-> "in", ver |-> v, opcode |-> o, args |-> a,
                   wire |-> "", outOpcode |-> "", outArgs |-> <<>>,
                   panic |-> FALSE, err |-> Nil, errPanic |-> FALSE]
    /\ hc = [pc |-> "off"]
    /\ fr = [pc |-> "off"]

\* NewInstruction(opcode, args...)
CodecEncode ==
    /\ codec.pc = "in"
    /\ codec' = [codec EXCEPT
                    !.pc = "encoded",
                    !.wire = IF codec.ver = "protocol"
                             THEN NewInstruction(codec.opcode, codec.args)
                             ELSE GuacNewInstruction(codec.opcode, codec.args)]
    /\ UNCHANGED <<tunnelVars, hc, fr>>

\* instr.Opcode().Value(), and Value() of each of instr.Args().
CodecDecode ==
    /\ codec.pc = "encoded"
    /\ LET w == codec.wire
       IN codec' =
            IF codec.ver = "protocol"
            THEN IF OpcodePanics(w) \/ ArgsPanics(w)
                 THEN [codec EXCEPT !.pc = "decoded", !.panic = TRUE]
                 ELSE [codec EXCEPT !.pc = "decoded",
                                    !.outOpcode = Value(Opcode(w)),
                                    !.outArgs = ArgValues(w)]
            ELSE IF GuacOpcodePanics(w) \/ GuacArgsPanics(w)
                 THEN [codec EXCEPT !.pc = "decoded", !.panic = TRUE]
                 ELSE [codec EXCEPT !.pc = "decoded",
                                    !.outOpcode = Value(GuacOpcode(w)),
                                    !.outArgs = [k \in 1..Len(GuacArgs(w)) |->
                                                    Value(GuacArgs(w)[k])]]
    /\ UNCHANGED <<tunnelVars, hc, fr>>

\* instr.Error()
CodecError ==
    /\ codec.pc = "decoded"
    /\ codec.ver = "protocol"
    /\ codec' = IF ErrorPanics(codec.wire)
                THEN [codec EXCEPT !.pc = "errored", !.errPanic = TRUE]
                ELSE [codec EXCEPT !.pc = "errored", !.err = Error(codec.wire)]
    /\ UNCHANGED <<tunnelVars, hc, fr>>

CodecNext == CodecEncode \/ CodecDecode \/ CodecError

CodecSpec == CodecInit /\ [][CodecNext]_vars

(***************************************************************************)
(* HandshakeConfigs built by one caller.  A Go map is a reference: maps    *)
(* holds the map objects, and a config holds the index of the one it was   *)
(* given.  The caller's own map, when it has one, is maps[1].              *)
(***************************************************************************)

MaxConfigs == 2
MaxPuts == 1

\* The maps the caller may pass to NewHandshakeConfig; <<>> is the nil map.
CallerMaps ==
    {<<>>,
     <<[hostname |-> "h0"]>>,
     <<[width |-> "5", dpi |-> "x", username |-> "u0"]>>}

\* The options of one call.
HandshakeOptionLists ==
    {<<>>,
     <<[opt |-> "WithHostPort", a |-> "h1", b |-> "3389"]>>,
     <<[opt |-> "WithScreen", w |-> 800, h |-> 600, d |-> 72],
       [opt |-> "WithProtocol", a |-> "vnc"]>>,
     <<[opt |-> "WithAuth", a |-> "u", b |-> "p"],
       [opt |-> "WithScreen", w |-> 0, h |-> 65536, d |-> 96]>>}

\* What the caller writes into its map afterwards.
CallerPuts == {<<"hostname", "h2">>, <<"width", "1">>, <<"color-depth", "8">>}

\* The argument names guacd asks for in the args instruction.
ProbeArgs == Args(NewInstruction("args",
                 <<"hostname", "port", "username", "width", "height", "dpi">>))

ConfigInit ==
    /\ InitTunnel(CodecRun)
    /\ codec = CodecOff
    /\ fr = [pc |-> "off"]
    /\ \E m \in CallerMaps :
          hc = [pc |-> "on", maps |-> m, hasMap |-> m # <<>>, built |-> <<>>,
                puts |-> 0]

\* The config with index k as the program sees it now: its fields, and the
\* map it refers to.
ConfigAt(k) ==
    [hc.built[k].cfg EXCEPT !.connectArgs = hc.maps[hc.built[k].ref]]

\* config := NewHandshakeConfig(m, opts...), m the caller's map or nil.  The
\* map the config refers to is the one the call was given, or a new one for
\* nil; the options and setScreen write into it.
HcNew ==
    /\ hc.pc = "on"
    /\ Len(hc.built) < MaxConfigs
    /\ \E opts \in HandshakeOptionLists :
          LET ref == IF hc.hasMap THEN 1 ELSE Len(hc.maps) + 1
              old == IF hc.hasMap THEN hc.maps[1] ELSE <<>>
              c   == NewHandshakeConfig(old, opts)
              ms  == IF hc.hasMap THEN [hc.maps EXCEPT ![1] = c.connectArgs]
                     ELSE Append(hc.maps, c.connectArgs)
          IN hc' = [hc EXCEPT
                       !.maps = ms,
                       !.built = Append(@,
                           [cfg |-> c, ref |-> ref, opts |-> opts,
                            connect |-> ConnectInstruction(c, ProbeArgs)])]
    /\ UNCHANGED <<tunnelVars, codec, fr>>

\* m[k] = v by the caller, on the map it passed.
HcCallerPut ==
    /\ hc.pc = "on"
    /\ hc.hasMap
    /\ hc.puts < MaxPuts
    /\ \E kv \in CallerPuts :
          hc' = [hc EXCEPT !.maps[1] = MapPut(@, kv[1], kv[2]),
                           !.puts = @ + 1]
    /\ UNCHANGED <<tunnelVars, codec, fr>>

ConfigNext == HcNew \/ HcCallerPut

ConfigSpec == ConfigInit /\ [][ConfigNext]_vars

(***************************************************************************)
(* FileRecorder by itself: callers record a connection, close it and       *)
(* replay it.  ver is the FileRecorder: "recorder" (package recorder),     *)
(* "record" (package record) or "guac" (package guac, which has no         *)
(* Replay).  files is the directory: for each name the file's bytes (data, *)
(* as a reader of the file's format gets them), what its gzip writer holds *)
(* and has not flushed (buffered), whether it is a gzip stream (gz) and    *)
(* whether its writer was closed (closed).  writers and closers hold the   *)
(* keys of f.writers and f.closers.  mu is f.mu: 0 when it is unlocked,    *)
(* or the caller that locked it.  th is each caller's position in the call *)
(* it is making: waiting in f.mu.Lock() (lock), in the body of the method  *)
(* (body), in the deferred f.mu.Lock() of Close (relock).  rp is the       *)
(* replay: the goroutine Replay starts (pc), what its reader has not read  *)
(* yet (rest), the line it holds (line), the channel (ch, chClosed), the   *)
(* context (cancelled) and the consumer (got, stopped).                    *)
(***************************************************************************)

MaxRecords == 2
MaxRecorded == 136
MaxCalls == 4

\* make(chan string, 64)
chanCap == 64

RECURSIVE Repeat(_, _)
Repeat(x, n) == IF n = 0 THEN "" ELSE x \o Repeat(x, n - 1)

\* The data of one Record call, for each kind of caller: an instruction and
\* pieces of instructions, or more instructions than the replay channel
\* buffers.
RecordData == {{"a;", "b", ";cc;"}, {Repeat("a;", chanCap + 2)}}

\* The connection ids the caller records under, and those it closes and
\* replays.
RecordIds == {"$c1", "c1"}
ReplayIds == {"$c1", "c2"}

\* FileRecorder.connId: strings.TrimPrefix(connId, "$")
TrimDollar(id) ==
    IF id # "" /\ CharAt(id, 0) = "$" THEN Slice(id, 1, Len(id)) ELSE id

\* FileRecorder.filename
Filename(f, id) == "base/" \o id \o (IF f.compress THEN ".gz" ELSE "")

NoReplay ==
    [pc |-> "none", id |-> "", rest |-> "", line |-> "", ch |-> <<>>,
     hasCh |-> FALSE, chClosed |-> FALSE, err |-> Nil, got |-> <<>>,
     cancelled |-> FALSE, stopped |-> FALSE]

\* The callers of the recorder.
Threads == {1, 2}

NoCall == [pc |-> "idle", op |-> "", id |-> "", data |-> ""]

\* A run: the FileRecorder, whether it compresses, the data the callers
\* record, how many callers there are, whether they replay, and whether
\* os.Create can fail.
RecorderRun(v, z, d, n, r, cf) ==
    [ver |-> v, compress |-> z, data |-> d, callers |-> n, replay |-> r,
     createFails |-> cf]

\* One caller that records, closes and replays, with each FileRecorder that
\* has Replay; one caller of the FileRecorder of package guac; two callers
\* of each FileRecorder, with and without failures of os.Create.
RecorderRuns ==
    {RecorderRun("recorder", z, d, 1, TRUE, FALSE) :
        z \in BOOLEAN, d \in RecordData}
    \cup {RecorderRun("record", TRUE, {"a;", "b", ";cc;"}, 1, TRUE, FALSE)}
    \cup {RecorderRun("guac", z, {"a;", "b", ";cc;"}, 1, FALSE, FALSE) :
            z \in BOOLEAN}
    \cup {RecorderRun(v, FALSE, {"a;", "b"}, 2, FALSE, cf) :
            v \in {"recorder", "record", "guac"}, cf \in BOOLEAN}

\* NewFileRecorder
RecorderInit ==
    /\ InitTunnel(CodecRun)
    /\ codec = CodecOff
    /\ hc = [pc |-> "off"]
    /\ \E r \in RecorderRuns :
          fr = [pc |-> "on", ver |-> r.ver, compress |-> r.compress,
                data |-> r.data, callers |-> r.callers, replay |-> r.replay,
                createFails |-> r.createFails,
                files |-> <<>>, writers |-> {}, closers |-> {}, mu |-> 0,
                th |-> [t \in Threads |-> NoCall], calls |-> 0,
                records |-> 0, opens |-> 0, recorded |-> "",
                crashed |-> FALSE, rp |-> NoReplay]

\* The methods of each FileRecorder, by what they do: Record is Write in
\* packages record and guac, Open is OpenWriter in package guac.
MethodsOf(v) ==
    IF v = "recorder" THEN {"Record", "Close"} ELSE {"Record", "Close", "Open"}

\* The connection has a file that no Close has closed.
Recording(id) ==
    /\ Filename(fr, id) \in DOMAIN fr.files
    /\ ~fr.files[Filename(fr, id)].closed

\* A caller calls a method and comes to its f.mu.Lock().  Close is called
\* for a connection that is being recorded.
FrCall ==
    /\ fr.pc = "on" /\ ~fr.crashed
    /\ fr.rp.pc = "none"
    /\ fr.calls < MaxCalls
    /\ \E t \in 1..fr.callers, op \in MethodsOf(fr.ver) :
          /\ fr.th[t].pc = "idle"
          /\ \/ /\ op = "Record"
                /\ fr.records < MaxRecords
                /\ \E c \in RecordIds, data \in fr.data :
                      /\ Len(fr.recorded) + Len(data) <= MaxRecorded
                      /\ fr' = [fr EXCEPT
                                   !.th[t] = [pc |-> "lock", op |-> op,
                                              id |-> c, data |-> data],
                                   !.calls = @ + 1, !.records = @ + 1]
             \/ /\ op # "Record"
                /\ op = "Close" => Recording("c1")
                /\ fr' = [fr EXCEPT
                             !.th[t] = [pc |-> "lock", op |-> op,
                                        id |-> "$c1", data |-> ""],
                             !.calls = @ + 1]
    /\ UNCHANGED <<tunnelVars, codec, hc>>

\* f.mu.Lock() returns.  Write of package guac unlocks at once
\* (f.mu.Lock(); f.mu.Unlock()) and goes on without the mutex.
FrLock ==
    /\ fr.pc = "on" /\ ~fr.crashed
    /\ fr.mu = 0
    /\ \E t \in Threads :
          /\ fr.th[t].pc = "lock"
          /\ fr' = [fr EXCEPT
                       !.th[t].pc = "body",
                       !.mu = IF fr.ver = "guac" /\ fr.th[t].op = "Record"
                              THEN 0 ELSE t]
    /\ UNCHANGED <<tunnelVars, codec, hc>>

\* os.Create(filename) succeeded: the file is there and empty, whatever it
\* held.
FrCreate(f, id) ==
    [f EXCEPT !.files = MapPut(@, Filename(f, id),
                               [gz |-> f.compress, data |-> "",
                                buffered |-> "", closed |-> FALSE]),
              !.opens = @ + 1]

\* FileRecorder.open after os.Create succeeded: the writer and its closers
\* are entered in the maps.  openWriter of package guac enters nothing.
FrOpen(f, id) ==
    IF f.ver = "guac" THEN FrCreate(f, id)
    ELSE [FrCreate(f, id) EXCEPT !.writers = @ \cup {id},
                                 !.closers = @ \cup {id}]

\* w.Write(data) and, in packages recorder and record, gw.Flush() for a
\* gzip writer: the data is in the file.  In package guac a gzip writer is
\* not flushed: it holds the data until it is closed, and the data of a
\* writer that is in no map (kept = FALSE) never reaches the file.
FrWrite(f, id, data, kept) ==
    IF f.ver = "guac" /\ f.compress
    THEN IF kept
         THEN [f EXCEPT !.files[Filename(f, id)].buffered = @ \o data]
         ELSE f
    ELSE [f EXCEPT !.files[Filename(f, id)].data = @ \o data]

\* The call of caller t returns; unlock says whether a deferred
\* f.mu.Unlock() runs.
FrReturn(f, t, unlock) ==
    [f EXCEPT !.th[t] = NoCall, !.mu = IF unlock THEN 0 ELSE @]

\* Whether os.Create may succeed, and fail, in this run.
CreateOutcomes == IF fr.createFails THEN {TRUE, FALSE} ELSE {TRUE}

\* Another caller is in a method body that changes the writer map.
MapWriterBeside(t) ==
    \E u \in Threads \ {t} :
        fr.th[u].pc = "body" /\ fr.th[u].op \in {"Open", "Close"}

\* The body of Record (Write): the writer of the connection is looked up,
\* opened when there is none (and the call returns when that fails), and
\* written to.  In package guac the mutex is not held: beside a caller that
\* changes the map, the Go runtime may stop the program (concurrent map
\* read and map write).
FrRecord ==
    /\ fr.pc = "on" /\ ~fr.crashed
    /\ \E t \in Threads, ok \in CreateOutcomes :
          /\ fr.th[t].pc = "body" /\ fr.th[t].op = "Record"
          /\ LET id     == TrimDollar(fr.th[t].id)
                 exists == id \in fr.writers
                 f      == IF exists THEN fr ELSE FrOpen(fr, id)
                 kept   == exists \/ fr.ver # "guac"
                 done   == [FrWrite(f, id, fr.th[t].data, kept) EXCEPT
                               !.recorded = @ \o fr.th[t].data]
             IN \/ /\ exists \/ ok
                   /\ fr' = FrReturn(done, t, fr.ver # "guac")
                \/ /\ ~exists /\ ~ok
                   /\ fr' = FrReturn(fr, t, fr.ver # "guac")
                \/ /\ fr.ver = "guac" /\ MapWriterBeside(t)
                   /\ fr' = [fr EXCEPT !.crashed = TRUE]
    /\ UNCHANGED <<tunnelVars, codec, hc>>

\* A Close that removes the connection from f.writers only.
FrCloseWritersOnly ==
    /\ fr.pc = "on" /\ ~fr.crashed
    /\ \E t \in Threads :
          /\ fr.th[t].pc = "body" /\ fr.th[t].op = "Close"
          /\ LET id == TrimDollar(fr.th[t].id)
             IN fr' = IF id \in fr.closers
                      THEN FrReturn([fr EXCEPT
                               !.files[Filename(fr, id)].closed = TRUE,
                               !.writers = @ \ {id}], t, TRUE)
                      ELSE FrReturn(fr, t, TRUE)
    /\ UNCHANGED <<tunnelVars, codec, hc>>

\* The body of Close: the closers of the connection (in package guac, its
\* writer) are closed, which flushes what a gzip writer holds, and the
\* connection is removed from the maps.  In package guac the deferred call
\* is f.mu.Lock(): the caller waits for the mutex it holds.
FrClose ==
    /\ fr.pc = "on" /\ ~fr.crashed
    /\ \E t \in Threads :
          /\ fr.th[t].pc = "body" /\ fr.th[t].op = "Close"
          /\ LET id     == TrimDollar(fr.th[t].id)
                 name   == Filename(fr, id)
                 exists == IF fr.ver = "guac" THEN id \in fr.writers
                           ELSE id \in fr.closers
                 closed == [fr EXCEPT
                               !.files[name] =
                                   [@ EXCEPT !.data = @ \o fr.files[name].buffered,
                                             !.buffered = "",
                                             !.closed = TRUE],
                               !.writers = @ \ {id},
                               !.closers = @ \ {id}]
                 f      == IF exists THEN closed ELSE fr
             IN fr' = IF fr.ver = "guac"
                      THEN [f EXCEPT !.th[t].pc = "relock"]
                      ELSE FrReturn(f, t, TRUE)
    /\ UNCHANGED <<tunnelVars, codec, hc>>

\* The body of Open (package record): open, whether or not the connection
\* has a writer; and of OpenWriter (package guac): nothing when it has one,
\* else openWriter, and the writer is entered in f.writers.
FrOpenCall ==
    /\ fr.pc = "on" /\ ~fr.crashed
    /\ \E t \in Threads, ok \in CreateOutcomes :
          /\ fr.th[t].pc = "body" /\ fr.th[t].op = "Open"
          /\ LET id == TrimDollar(fr.th[t].id)
             IN fr' =
                  IF fr.ver = "guac" /\ id \in fr.writers
                  THEN FrReturn(fr, t, TRUE)
                  ELSE IF ~ok THEN FrReturn(fr, t, TRUE)
                  ELSE IF fr.ver = "guac"
                  THEN FrReturn([FrOpen(fr, id) EXCEPT !.writers = @ \cup {id}],
                                t, TRUE)
                  ELSE FrReturn(FrOpen(fr, id), t, TRUE)
    /\ UNCHANGED <<tunnelVars, codec, hc>>

\* FileRecorder.Replay(ctx, connId) up to its return: os.Open, the gzip
\* reader, the channel, and the goroutine started.
FrReplay ==
    /\ fr.pc = "on" /\ ~fr.crashed
    /\ fr.replay
    /\ fr.rp.pc = "none"
    /\ \A t \in Threads : fr.th[t].pc = "idle"
    /\ \E c \in ReplayIds :
          LET name == Filename(fr, TrimDollar(c))
          IN fr' = [fr EXCEPT !.rp =
                IF name \notin DOMAIN fr.files
                THEN [NoReplay EXCEPT !.pc = "error", !.id = c,
                          !.err = Err("open " \o name
                                      \o ": no such file or directory")]
                ELSE IF fr.compress /\ ~fr.files[name].gz
                THEN [NoReplay EXCEPT !.pc = "error", !.id = c,
                          !.err = Err("gzip: invalid header")]
                ELSE [NoReplay EXCEPT !.pc = "read", !.id = c, !.hasCh = TRUE,
                          !.rest = fr.files[name].data]]
    /\ UNCHANGED <<tunnelVars, codec, hc>>

\* A reader that gives the line without its delimiter.
ReplayReadStringTrimmed(rest) ==
    LET i == Index(rest, ";")
    IN IF i = -1 THEN [line |-> rest, rest |-> "", err |-> IoEOF]
       ELSE [line |-> Slice(rest, 0, i),
             rest |-> Slice(rest, i + 1, Len(rest)), err |-> Nil]

\* br.ReadString(';') on what is left of the file: the line with its ';',
\* or an error at the end of the data.
ReplayReadString(rest) ==
    LET i == Index(rest, ";")
    IN IF i = -1 THEN [line |-> rest, rest |-> "", err |-> IoEOF]
       ELSE [line |-> Slice(rest, 0, i + 1),
             rest |-> Slice(rest, i + 1, Len(rest)), err |-> Nil]

\* The goroutine at its select: with the context done it returns, and the
\* deferred function closes the channel; otherwise it reads a line, and
\* returns as well when the read fails.
FrProducerRead ==
    /\ fr.pc = "on"
    /\ fr.rp.pc = "read"
    /\ LET r == ReplayReadString(fr.rp.rest)
       IN fr' = [fr EXCEPT !.rp =
             IF fr.rp.cancelled \/ r.err # Nil
             THEN [@ EXCEPT !.pc = "done", !.chClosed = TRUE]
             ELSE [@ EXCEPT !.pc = "send", !.line = r.line, !.rest = r.rest]]
    /\ UNCHANGED <<tunnelVars, codec, hc>>

\* ch <- line: it waits for room in the channel, and for nothing else.
FrProducerSend ==
    /\ fr.pc = "on"
    /\ fr.rp.pc = "send"
    /\ Len(fr.rp.ch) < chanCap
    /\ fr' = [fr EXCEPT !.rp.ch = Append(@, fr.rp.line), !.rp.line = "",
                        !.rp.pc = "read"]
    /\ UNCHANGED <<tunnelVars, codec, hc>>

\* The consumer receives from the channel.
FrConsumerRecv ==
    /\ fr.pc = "on"
    /\ fr.rp.hasCh
    /\ ~fr.rp.stopped
    /\ fr.rp.ch # <<>>
    /\ fr' = [fr EXCEPT !.rp.got = Append(@, Head(fr.rp.ch)),
                        !.rp.ch = Tail(@)]
    /\ UNCHANGED <<tunnelVars, codec, hc>>

\* The consumer stops receiving before the channel is closed.
FrConsumerStop ==
    /\ fr.pc = "on"
    /\ fr.rp.hasCh
    /\ ~fr.rp.stopped
    /\ ~fr.rp.chClosed
    /\ fr' = [fr EXCEPT !.rp.stopped = TRUE]
    /\ UNCHANGED <<tunnelVars, codec, hc>>

\* The context passed to Replay is cancelled.
FrCancel ==
    /\ fr.pc = "on"
    /\ fr.rp.hasCh
    /\ ~fr.rp.cancelled
    /\ fr' = [fr EXCEPT !.rp.cancelled = TRUE]
    /\ UNCHANGED <<tunnelVars, codec, hc>>

RecorderNext ==
    \/ FrCall
    \/ FrLock
    \/ FrRecord
    \/ FrClose
    \/ FrOpenCall
    \/ FrReplay
    \/ FrProducerRead
    \/ FrProducerSend
    \/ FrConsumerRecv
    \/ FrConsumerStop
    \/ FrCancel

RecorderSpec == RecorderInit /\ [][RecorderNext]_vars

(***************************************************************************)
(* Properties.  What the endpoints did is taken from the run itself, with  *)
(* operators of their own: the bytes the upstream sent cut at every ';',   *)
(* and the bytes it received parsed by the length prefixes.                *)
(***************************************************************************)

IsPrefix(a, b) == Len(a) <= Len(b) /\ SubSeq(b, 1, Len(a)) = a

\* The complete ';'-terminated pieces of s, in order.
RECURSIVE SplitDelim(_)
SplitDelim(s) ==
    IF Index(s, ";") = -1 THEN <<>>
    ELSE <<Slice(s, 0, Index(s, ";") + 1)>>
         \o SplitDelim(Slice(s, Index(s, ";") + 1, Len(s)))

\* The instructions of s as the upstream parses them: each element is its
\* decimal length, '.', that many characters, then ',' or, at the end of
\* an instruction, ';'.  cur holds the elements of the instruction so far.
RECURSIVE WireParse(_, _)
WireParse(s, cur) ==
    IF s = "" THEN <<>>
    ELSE LET d    == Index(s, ".")
             n    == Atoi(Slice(s, 0, d))
             v    == Slice(s, d + 1, d + 1 + n)
             sep  == CharAt(s, d + 1 + n)
             rest == Slice(s, d + n + 2, Len(s))
         IN IF sep = ";" THEN <<Append(cur, v)>> \o WireParse(rest, <<>>)
            ELSE WireParse(rest, Append(cur, v))

\* What Handshake wrote to the upstream, as the upstream parses it.
HsReceived ==
    WireParse(Concat([k \in 1..Len(HsWrites) |-> HsWrites[k].data]), <<>>)

\* What wsToGuacd wrote to the upstream, one entry per Write.
W2gWrites ==
    LET w == SelectSeq(guacd.tx, LAMBDA x : x.by = "w2g")
    IN [k \in 1..Len(w) |-> w[k].data]

\* The messages ReadMessage has returned so far.
WsRead == SubSeq(WsScript, 1, ws.sent - Len(ws.rx))

\* The instructions the upstream sent after its two handshake responses.
DataInstructions == Tail(Tail(SplitDelim(guacd.sent)))

\* The names the upstream listed in its args response.
ArgNamesOf ==
    (ArgsA :> <<"hostname", "port", "username">>)
    @@ (ArgsB :> <<"username", "bogus", "width", "hostname">>)
    @@ (ArgsNone :> <<>>)

\* The connection id the upstream put in its ready response.
ReadyIdOf == (ReadyA :> "$c1") @@ (ReadyB :> "$a.b,c")

\* The error a select response that is an error instruction stands for.
SelectErrorOf ==
    (ErrorA :> Err("server error: 769_CLIENT_UNAUTHORIZED denied"))
    @@ (ErrorB :> Err("server error: 42_UNKNOWN odd, one"))

HandshakeReturned == main.pc \in {"hsDone", "fwdWait", "fwdDone"}

G2wStep == G2wTop \/ G2wFill \/ G2wRead \/ G2wStore \/ G2wWrite

W2gStep == W2gTop \/ W2gRead \/ W2gStore \/ W2gWrite

\* C1: the error latch is write-once: once it holds an error no step
\* changes it, whatever the interleaving of the goroutines.
C1_LatchWriteOnce == [][err # Nil => err' = err]_vars

\* C2: when Forward has returned, every activity it started has exited:
\* both pumps, and the keep-alives that were started.
C2_ForwardWaitsForAll ==
    main.pc = "fwdDone" =>
        /\ g2w.pc = "done"
        /\ w2g.pc = "done"
        /\ kaG.pc \in {"off", "done"}
        /\ kaW.pc \in {"off", "done"}

\* C3: after cancellation a pump of package tunnel that has not exited can
\* always take its next step by itself: it is never left waiting in a read
\* for a peer to send or close, or for the caller to call Close.
C3_CancelUnblocksPumps ==
    (impl = "tunnel" /\ ctxDone /\ closes = 0 /\ ~crashed) =>
        /\ g2w.pc = "done" \/ ENABLED G2wStep
        /\ w2g.pc = "done" \/ ENABLED W2gStep

\* C4: in package tunnel the messages written to the downstream are, in
\* order and byte for byte, a prefix of the ';'-delimited instructions in
\* the bytes guacdToWs read, and the writes of wsToGuacd are a prefix of the
\* messages read from the downstream.
C4_FifoVerbatim ==
    impl = "tunnel" =>
        /\ IsPrefix(ws.tx, SplitDelim(g2w.pulled))
        /\ IsPrefix(W2gWrites, WsRead)

C4_Witness ==
    /\ impl = "tunnel"
    /\ Len(ws.tx) >= 2
    /\ Len(W2gWrites) = 2
    /\ Len(g2w.buf) > 0

\* C5: when the upstream sends complete instructions and then closes
\* cleanly, the downstream takes every write and the caller neither cancels
\* nor closes, the read of the end of stream ends the pump with every one of
\* those instructions relayed, nothing latched, and Forward returning nil.
C5_CleanEofIsSuccess ==
    (env = Quiet /\ closes = 0 /\ ~crashed /\ ws.state = "ok"
       /\ g2w.eofReads > 0) =>
        /\ g2w.pc = "done"
        /\ ws.tx = DataInstructions
        /\ err = Nil
        /\ main.pc = "fwdDone" => main.fwdResult = Nil

\* C6: a pump that stopped on a failed read or write has left an error in
\* the latch, and Forward does not return nil when a pump stopped so.
C6_FailureLatched ==
    /\ (g2w.failed /\ g2w.pc = "done") => err # Nil
    /\ (w2g.failed /\ w2g.pc = "done") => err # Nil
    /\ (main.pc = "fwdDone" /\ (\/ g2w.failed /\ g2w.pc = "done"
                                \/ w2g.failed /\ w2g.pc = "done")) =>
           main.fwdResult # Nil

\* C7: while the latch holds an error and Forward has not returned, the
\* tunnel can go on by itself, pumps or the return of Forward, without any
\* further input from either endpoint.
C7_ErrorLeadsToReturn ==
    (err # Nil /\ main.pc = "fwdWait" /\ ~crashed) =>
        ENABLED (G2wStep \/ W2gStep \/ ForwardReturn)

\* C8: when the response to select is an error instruction, Handshake has
\* returned the error with the decoded status and message, and has written
\* nothing but select.
C8_SelectErrorStopsHandshake ==
    (main.selectResponse \in DOMAIN SelectErrorOf /\ ~crashed) =>
        /\ main.pc = "hsDone"
        /\ main.result = SelectErrorOf[main.selectResponse]
        /\ Len(HsWrites) = 1

C10_ConnIdAndOnConnect ==
    /\ ~HandshakeReturned => connId = "" /\ calls.onConnect = <<>>
    /\ (HandshakeReturned /\ main.result = Nil
          /\ main.connectResponse \in DOMAIN ReadyIdOf) =>
           /\ closes = 0 => connId = ReadyIdOf[main.connectResponse]
           /\ calls.onConnect = IF tun.onConnect # Nil
                                THEN <<ReadyIdOf[main.connectResponse]>>
                                ELSE <<>>

C10_Witness ==
    /\ main.pc = "hsDone"
    /\ main.result = Nil
    /\ main.connectResponse = ReadyB
    /\ tun.onConnect # Nil
    /\ calls.onConnect = <<"$a.b,c">>
    /\ connId = "$a.b,c"

\* C11: in package tunnel, when the response to connect is an error
\* instruction Handshake has returned the error with the decoded status and
\* message; when it is an instruction that is no error and has no
\* arguments, Handshake has returned the error of a missing connection id
\* ("no connection ID received" in the code).  Neither crashes, neither
\* succeeds.
C11_ConnectResponseErrors ==
    impl = "tunnel" =>
        /\ main.connectResponse \in DOMAIN SelectErrorOf =>
               /\ ~crashed
               /\ main.pc = "hsDone"
               /\ main.result = SelectErrorOf[main.connectResponse]
        /\ main.connectResponse = "5.ready;" =>
               /\ ~crashed
               /\ main.pc = "hsDone"
               /\ main.result = Err("no connection ID received")

C11_Witness ==
    /\ impl = "tunnel"
    /\ main.connectResponse = "5.ready;"
    /\ main.readStage = "connect"
    /\ main.result = Err("no connection ID received")
    /\ connId = ""

\* C12: in package tunnel, when a read of Handshake came back with a
\* transport error, the end of the stream before any ';' included,
\* Handshake has returned an error, without a crash from parsing what was
\* read, and has written nothing after that read.
C12_TransportFailureAborts ==
    (impl = "tunnel" /\ main.readErr # Nil) =>
        /\ ~crashed
        /\ main.pc = "hsDone"
        /\ main.result # Nil
        /\ Len(HsWrites) = IF main.readStage = "select" THEN 1 ELSE 2

\* C13: when Handshake has returned an error the connection id is empty
\* and on-connect has not been called; the connection id is non-empty only
\* when Handshake has returned nil.
C13_HandshakeAllOrNothing ==
    /\ (HandshakeReturned /\ main.result # Nil) =>
           connId = "" /\ calls.onConnect = <<>>
    /\ connId # "" => HandshakeReturned /\ main.result = Nil

C13_Witness ==
    /\ main.pc = "hsDone"
    /\ main.readStage = "connect"
    /\ main.result # Nil
    /\ tun.onConnect # Nil
    /\ connId = ""

\* C14: the first Close of a tunnel whose handshake succeeded writes
\* disconnect to the upstream while it is still open (and nothing when the
\* write cannot succeed), leaves both connections closed, calls
\* on-disconnect, when set, with the connection id of the handshake, and
\* leaves the connection id empty.
C14_CloseOrder ==
    [][(closes = 0 /\ closes' = 1) =>
          /\ guacd'.tx = IF guacd.closed \/ guacd.end = "err" THEN guacd.tx
                         ELSE Append(guacd.tx, [by |-> "close",
                                                data |-> "10.disconnect;"])
          /\ guacd'.closed /\ ws'.closed
          /\ calls'.onDisconnect =
                 IF tun.onDisconnect # Nil THEN <<connId>> ELSE <<>>
          /\ (main.result = Nil /\ main.connectResponse \in DOMAIN ReadyIdOf) =>
                 connId = ReadyIdOf[main.connectResponse]
          /\ connId' = ""]_vars

C14_Witness ==
    /\ closes = 1
    /\ tun.onDisconnect # Nil
    /\ calls.onDisconnect = <<"$c1">>
    /\ connId = ""
    /\ guacd.closed /\ ws.closed
    /\ guacd.tx[Len(guacd.tx)] = [by |-> "close", data |-> "10.disconnect;"]

\* C15: a Close of a tunnel that has been closed already changes nothing:
\* nothing more is written, and on-disconnect is not called again.
C15_CloseIdempotent ==
    [][(closes >= 1 /\ closes' > closes) =>
          UNCHANGED <<guacd, ws, connId, calls>>]_vars

\* How far a pump is from its return once the connections are closed.
PumpRank(p) ==
    CASE p.pc = "off"  -> 6
      [] p.pc = "top"  -> 5
      [] p.pc = "read" -> 4
      [] p.pc = "setErr" /\ p.next = "write" -> 3
      [] p.pc = "write" -> 2
      [] p.pc = "setErr" /\ p.next = "done" -> 1
      [] p.pc = "done" -> 0

\* C16: once Close has been called, a pump that runs can always take a
\* step by itself, every step takes it nearer to its return, a pump that
\* has returned has cancelled the context, and Forward, while it waits, is
\* never left without a step of the tunnel to wait for: no peer has to send
\* or close anything.
C16_CloseForcesShutdown ==
    /\ [](closes >= 1 /\ ~crashed =>
            /\ g2w.pc \notin {"off", "done"} => G2wCanStep
            /\ w2g.pc \notin {"off", "done"} => W2gCanStep
            /\ (g2w.pc = "done" \/ w2g.pc = "done") => ctxDone
            /\ main.pc = "fwdWait" => G2wCanStep \/ W2gCanStep \/ ctxDone)
    /\ [][closes >= 1 =>
            /\ g2w' # g2w => PumpRank(g2w') < PumpRank(g2w)
            /\ w2g' # w2g => PumpRank(w2g') < PumpRank(w2g)]_vars

C16_Witness ==
    /\ closes = 1
    /\ guacd.end = "open" /\ ws.state = "ok"
    /\ script = <<>>
    /\ ~env.cancel
    /\ g2w.pc = "done" /\ g2w.failed
    /\ w2g.pc = "done" /\ w2g.failed
    /\ main.pc = "fwdDone"
    /\ main.fwdResult # Nil

\* The number of code points of a string of CodecAlphabet: its bytes less
\* the continuation bytes.
RECURSIVE CodePoints(_)
CodePoints(s) ==
    IF s = "" THEN 0
    ELSE (IF Head(s) = Cont THEN 0 ELSE 1) + CodePoints(Tail(s))

\* LENGTH.VALUE with the length in code points.
ElementOf(v) == Itoa(CodePoints(v)) \o "." \o v

\* The codec has encoded and decoded.
CodecDecoded == codec.pc \in {"decoded", "errored"}

\* C17: with the codec of package protocol, decoding what was encoded
\* gives the opcode and the argument values back, the same in number and
\* order, for every opcode and arguments over the alphabet with ',', ';'
\* and '.'.
C17_RoundTrip ==
    (CodecDecoded /\ codec.ver = "protocol") =>
        /\ ~codec.panic
        /\ codec.outOpcode = codec.opcode
        /\ codec.outArgs = codec.args

\* C18: for an instruction with arguments (and an opcode without ','),
\* every element of the encoding carries the number of code points of its
\* value as its length, and decoding recovers every argument value
\* unchanged, in either codec.
C18_LengthsInCodePoints ==
    (CodecDecoded /\ Index(codec.opcode, ",") = -1 /\ codec.args # <<>>) =>
        /\ codec.wire =
               JoinComma([k \in 1..(Len(codec.args) + 1) |->
                             ElementOf((<<codec.opcode>> \o codec.args)[k])])
               \o ";"
        /\ ~codec.panic
        /\ codec.outArgs = codec.args

\* C19: an instruction without arguments decodes to its opcode and to the
\* empty sequence of arguments, without a crash, in either codec.
C19_ZeroArguments ==
    (CodecDecoded /\ codec.args = <<>>) =>
        /\ ~codec.panic
        /\ codec.outOpcode = codec.opcode
        /\ codec.outArgs = <<>>

\* The text of the status with the code that the string s parses to.
StatusTextOf(s) ==
    CASE s = "769" -> "769_CLIENT_UNAUTHORIZED"
      [] s = "42"  -> "42_UNKNOWN"
      [] OTHER     -> "0_SUCCESS"

\* C20: Error() does not crash; it returns an error exactly when the
\* opcode is "error"; for arguments [message, code] the error is the name
\* of the status of code with message, "_UNKNOWN" for a code that is no
\* defined status.
C20_ErrorOfInstruction ==
    codec.pc = "errored" =>
        /\ ~codec.errPanic
        /\ codec.err # Nil <=> codec.opcode = "error"
        /\ (codec.opcode = "error" /\ Len(codec.args) = 2) =>
               codec.err = Err("server error: " \o StatusTextOf(codec.args[2])
                               \o " " \o codec.args[1])
\* C21: in package tunnel, when the caller has configured a Recorder,
\* Record has been called once for each instruction forwarded to the
\* downstream, with the connection id and the bytes of the instruction, in
\* the order of forwarding, and once Close has been called the Recorder's
\* Close has been called.
C21_RecorderCalled ==
    (impl = "tunnel" /\ env.recorder) =>
        /\ calls.record = [k \in 1..Len(ws.tx) |->
                              <<ReadyIdOf[main.connectResponse], ws.tx[k]>>]
        /\ closes >= 1 => calls.recorderClose # <<>>

\* The functions the options opts give for the callback set by the option
\* named name, in the order of opts.
Supplied(opts, name) ==
    LET given == SelectSeq(opts, LAMBDA o : o.opt = name)
    IN [k \in 1..Len(given) |-> given[k].f]

\* C22: in package tunnel, for every list of options the tunnel may have
\* been built from, once a callback's event has happened the functions the
\* tunnel invokes at it are the functions the options supplied for it, all
\* of them and in the order given.
C22_CallbacksChain ==
    \A opts \in TunnelOptionLists :
        (impl = "tunnel" /\ tun = NewTunnel(opts)) =>
            /\ calls.onConnect # <<>> =>
                   tun.onConnect = Supplied(opts, "WithOnConnect")
            /\ calls.onReadFromGuacd # <<>> =>
                   tun.onReadFromGuacd = Supplied(opts, "WithOnReadFromGuacd")
            /\ calls.onReadFromWs # <<>> =>
                   tun.onReadFromWs = Supplied(opts, "WithOnReadFromWs")
            /\ calls.onDisconnect # <<>> =>
                   tun.onDisconnect = Supplied(opts, "WithOnDisconnect")
\* The instructions guacdToWs has read so far, whole ones.
G2wInstructions == SplitDelim(g2w.pulled)

\* C27: in package tunnel a Handshake that succeeded holds no byte of the
\* upstream beyond the ';' of ready, and the first instruction forwarded to
\* the downstream is the first instruction the upstream sent after ready.
C27_NoDataLostAfterHandshake ==
    impl = "tunnel" =>
        /\ (HandshakeReturned /\ main.result = Nil) => main.buf = ""
        /\ ws.tx # <<>> => ws.tx[1] = DataInstructions[1]

\* C28: in package tunnel a server error in the latch is the error of the
\* first instruction guacdToWs read: an error instruction read later is
\* not looked at, and goes to the downstream like any other.
C28_OnlyFirstInspected ==
    (impl = "tunnel" /\ err # Nil /\ IsPrefix("server error: ", err[1])) =>
        /\ G2wInstructions # <<>>
        /\ err = Error(G2wInstructions[1])

C28_Witness ==
    /\ impl = "tunnel"
    /\ Len(ws.tx) = 2
    /\ ws.tx[2] = ErrorA
    /\ G2wInstructions = <<D1, ErrorA>>
    /\ g2w.pc = "read"
    /\ err = Nil

\* The opcodes of the instructions Handshake has written, as the upstream
\* parses them.
HsOpcodes == [k \in 1..Len(HsReceived) |-> HsReceived[k][1]]

\* C29: while Handshake waits for the first response it has written select
\* and nothing else; from the write of connect on it has written select,
\* size, audio, video, image and connect, in this order, and nothing after
\* connect; when it has succeeded the two instructions it read are the first
\* two the upstream sent.
C29_HandshakeSequence ==
    /\ (main.pc = "hsReadSelect" /\ ~crashed) => HsOpcodes = <<"select">>
    /\ (main.pc = "hsReadReady" /\ ~crashed) =>
           HsOpcodes = <<"select", "size", "audio", "video", "image", "connect">>
    /\ (main.pc = "hsDone" /\ main.result = Nil) =>
           /\ HsOpcodes = <<"select", "size", "audio", "video", "image", "connect">>
           /\ <<main.selectResponse, main.connectResponse>>
                  = SubSeq(SplitDelim(guacd.sent), 1, 2)

C29_Witness ==
    /\ main.pc = "hsDone"
    /\ main.result = Nil
    /\ main.readStage = "connect"
    /\ Len(HsReceived) = 6
    /\ HsReceived[6] = <<"connect", "h1", "3389", "u,1">>
\* The read deadline wsKeepalive asks for: interval times threshold.
WsDeadlineOf == tun.wsKeepaliveInterval * tun.wsKeepaliveThreshold

\* C30: with the downstream keep-alive running, the read deadline in force
\* is interval times threshold, counted from the start of the keep-alive
\* and from each pong; the downstream times out only when no pong was
\* observed for that long; a read of wsToGuacd that finds the downstream
\* timed out fails, the pump that stopped so has left an error in the latch
\* and cancelled the context, so that Forward returns.
C30_WsDeadline ==
    /\ [](kaW.pc \in {"wait", "done"} =>
            /\ tun.wsKeepaliveInterval > 0
            /\ ws.deadline = WsDeadlineOf
            /\ ws.state = "timeout" => ws.idle >= WsDeadlineOf
            /\ (ws.state = "timeout" /\ w2g.pc = "read") => W2gCanStep
            /\ (w2g.failed /\ w2g.pc = "done") => err # Nil /\ ctxDone)
    /\ [][(ws.state = "timeout" /\ ~ws.closed /\ ws.rx = <<>>
             /\ w2g.pc = "read" /\ w2g' # w2g) =>
               /\ w2g'.failed
               /\ IF err = Nil
                  THEN /\ w2g'.pc = "setErr"
                       /\ w2g'.pending
                              = Err("read data from ws error: i/o timeout")
                  ELSE w2g'.pc = "done"]_vars
    /\ [][(ws.pongs' > ws.pongs) => ws'.idle = 0]_vars

C30_Witness ==
    /\ ws.state = "timeout"
    /\ ws.pings = 2
    /\ ws.pongs = 0
    /\ ws.idle = 60
    /\ w2g.pc = "done"
    /\ err = Err("read data from ws error: i/o timeout")
    /\ main.pc = "fwdDone"
    /\ main.fwdResult = err

\* Whether the options opts hold the option called name.
HasOption(opts, name) == \E k \in 1..Len(opts) : opts[k].opt = name

\* C25: for every HandshakeConfig NewHandshakeConfig has returned, the
\* "width", "height" and "dpi" entries of its parameter map are the decimal
\* strings of the geometry its size instruction sends - the defaults
\* 1920, 1080 and 96 when no screen option was given - whatever the options
\* and whatever the caller's map held under those keys.
C25_ScreenInArgs ==
    hc.pc = "on" =>
        \A k \in 1..Len(hc.built) :
            LET c == ConfigAt(k)
                m == c.connectArgs
            IN /\ SizeInstruction(c) =
                      NewInstruction("size", <<MapGet(m, "width"),
                                               MapGet(m, "height"),
                                               MapGet(m, "dpi")>>)
               /\ ~HasOption(hc.built[k].opts, "WithScreen") =>
                      SizeInstruction(c) =
                          NewInstruction("size", <<"1920", "1080", "96">>)

\* C26: a HandshakeConfig does not change once it is built: neither another
\* config built from the same caller map nor the caller writing into that
\* map changes the connect instruction an earlier config produces.
C26_ConfigImmutable ==
    hc.pc = "on" =>
        \A k \in 1..Len(hc.built) :
            ConnectInstruction(ConfigAt(k), ProbeArgs) = hc.built[k].connect


\* The recording of the replayed connection was made by Record calls
\* followed by one Close.
RecordedThenClosed ==
    /\ fr.rp.hasCh
    /\ fr.opens = 1
    /\ TrimDollar(fr.rp.id) \notin fr.writers

\* What the replay has produced so far: received, buffered, and in hand.
ReplayProduced ==
    fr.rp.got \o fr.rp.ch
        \o (IF fr.rp.pc = "send" THEN <<fr.rp.line>> ELSE <<>>)

\* C23: Replay of a connection recorded by Record calls followed by Close
\* delivers the ';'-terminated instructions of the recorded data, in their
\* order, and closes the channel after the last; Replay of a connection with
\* no recording returns an error and no channel.
C23_ReplayDelivers ==
    fr.pc = "on" =>
        /\ RecordedThenClosed =>
              /\ IsPrefix(ReplayProduced, SplitDelim(fr.recorded))
              /\ (fr.rp.pc = "done" /\ ~fr.rp.cancelled) =>
                    /\ fr.rp.chClosed
                    /\ ReplayProduced = SplitDelim(fr.recorded)
              /\ fr.rp.chClosed => fr.rp.pc = "done"
        /\ (fr.rp.pc # "none" /\ fr.rp.id = "c2") =>
              /\ fr.rp.pc = "error"
              /\ fr.rp.err # Nil
              /\ ~fr.rp.hasCh

\* A recording made in two pieces that split an instruction, replayed to
\* the end and received.
C23_Witness ==
    /\ fr.pc = "on"
    /\ fr.compress
    /\ RecordedThenClosed
    /\ fr.recorded = "b;cc;"
    /\ fr.rp.pc = "done"
    /\ ~fr.rp.cancelled
    /\ fr.rp.chClosed
    /\ fr.rp.got = <<"b;", "cc;">>
    /\ fr.rp.ch = <<>>

\* The goroutine of Replay is not waiting for anything.
FrProducerCanStep ==
    \/ fr.rp.pc = "read"
    \/ fr.rp.pc = "send" /\ Len(fr.rp.ch) < chanCap

\* C24: once the context passed to Replay is cancelled, the goroutine of
\* Replay goes on to its end, where the channel is closed, whatever the
\* consumer does: with the context cancelled and a consumer that has
\* stopped receiving, the goroutine has returned or can take its next step.
C24_ReplayStopsOnCancel ==
    (fr.pc = "on" /\ fr.rp.hasCh /\ fr.rp.cancelled /\ fr.rp.stopped) =>
        \/ fr.rp.pc = "done" /\ fr.rp.chClosed
        \/ FrProducerCanStep


\* The writes the upstream keep-alive has made.
KaWrites(g) == SelectSeq(g.tx, LAMBDA w : w.by = "ka")

\* C31: the upstream keep-alive writes one nop to the upstream on each tick
\* and nothing else; a tick reads nothing from the upstream and, also when
\* its write fails, leaves the error latch and the context alone; after it
\* has seen the cancellation it writes nothing.
C31_GuacdKeepalive ==
    /\ [](impl = "tunnel" =>
            /\ \A k \in 1..Len(KaWrites(guacd)) : KaWrites(guacd)[k].data = "3.nop;"
            /\ Len(KaWrites(guacd)) <= kaG.ticks
            /\ kaG.pc = "off" => KaWrites(guacd) = <<>>)
    /\ [][(impl = "tunnel" /\ kaG'.ticks # kaG.ticks) =>
            /\ kaG'.ticks = kaG.ticks + 1
            /\ kaG.pc = "wait" /\ kaG'.pc = "wait"
            /\ IF ~guacd.closed /\ guacd.end # "err"
               THEN guacd'.tx = Append(guacd.tx, [by |-> "ka", data |-> "3.nop;"])
               ELSE guacd'.tx = guacd.tx
            /\ guacd'.rx = guacd.rx /\ script' = script
            /\ err' = err /\ ctxDone' = ctxDone /\ ws' = ws]_vars
    /\ [][kaG.pc = "done" =>
            (kaG' = kaG /\ KaWrites(guacd') = KaWrites(guacd))]_vars

\* Two ticks, the second after the caller closed the tunnel: its write
\* failed, nothing was latched, and the keep-alive has returned.
C31_Witness ==
    /\ impl = "tunnel"
    /\ kaG.pc = "done"
    /\ kaG.ticks = 2
    /\ Len(KaWrites(guacd)) = 1
    /\ guacd.closed
    /\ err = Nil


\* The interval the caller gave to the keep-alive option called name: that
\* of the last such option of opts, and 0 when there is none.
RECURSIVE ConfiguredInterval(_, _)
ConfiguredInterval(opts, name) ==
    IF opts = <<>> THEN 0
    ELSE IF opts[Len(opts)].opt = name THEN opts[Len(opts)].interval
    ELSE ConfiguredInterval(SubSeq(opts, 1, Len(opts) - 1), name)

\* Forward has started its goroutines.
ForwardStarted == main.pc \in {"fwdWait", "fwdDone"}

\* C32: Forward starts the keep-alive of a direction exactly when the
\* interval the caller configured for that direction is greater than 0: a
\* tunnel built without the option, or with an interval of 0 or less, runs
\* no keep-alive for that direction.
C32_KeepaliveIffPositive ==
    \A opts \in TunnelOptionLists :
        (impl = "tunnel" /\ tun = NewTunnel(opts)) =>
            /\ kaG.pc # "off" =>
                  ConfiguredInterval(opts, "WithGuacdKeepalive") > 0
            /\ kaW.pc # "off" =>
                  ConfiguredInterval(opts, "WithWsKeepalive") > 0
            /\ (ForwardStarted
                    /\ ConfiguredInterval(opts, "WithGuacdKeepalive") > 0) =>
                  kaG.pc # "off"
            /\ (ForwardStarted
                    /\ ConfiguredInterval(opts, "WithWsKeepalive") > 0) =>
                  kaW.pc # "off"


\* The last option of opts called name; opts holds one.
RECURSIVE LastOption(_, _)
LastOption(opts, name) ==
    IF opts[Len(opts)].opt = name THEN opts[Len(opts)]
    ELSE LastOption(SubSeq(opts, 1, Len(opts) - 1), name)

AtLeast(n, floor) == IF n < floor THEN floor ELSE n

\* C33: the keep-alive options clamp what they store: an interval below 30
\* seconds is stored as 30 seconds and a larger one as it is, a threshold
\* below 1 is stored as 1; so a keep-alive that runs never has an interval
\* below 30 seconds, and the downstream deadline is never below 30 seconds.
C33_KeepaliveClamped ==
    impl = "tunnel" =>
        /\ \A opts \in TunnelOptionLists :
              tun = NewTunnel(opts) =>
                 /\ HasOption(opts, "WithGuacdKeepalive") =>
                       tun.guacdKeepaliveInterval =
                           AtLeast(LastOption(opts, "WithGuacdKeepalive").interval, 30)
                 /\ HasOption(opts, "WithWsKeepalive") =>
                       /\ tun.wsKeepaliveInterval =
                             AtLeast(LastOption(opts, "WithWsKeepalive").interval, 30)
                       /\ tun.wsKeepaliveThreshold =
                             AtLeast(LastOption(opts, "WithWsKeepalive").threshold, 1)
        /\ kaG.pc # "off" => tun.guacdKeepaliveInterval >= 30
        /\ kaW.pc # "off" =>
              /\ tun.wsKeepaliveInterval >= 30
              /\ tun.wsKeepaliveThreshold >= 1
        /\ kaW.pc \in {"wait", "done"} => ws.deadline >= 30

\* The downstream keep-alive configured with -5 seconds and threshold 0,
\* running with a 30 second interval and a 30 second deadline, after a tick.
C33_Witness ==
    /\ impl = "tunnel"
    /\ tun = NewTunnel(WsKeepaliveZeroOptions)
    /\ tun.wsKeepaliveInterval = 30
    /\ tun.wsKeepaliveThreshold = 1
    /\ kaW.pc = "wait"
    /\ kaW.ticks = 1
    /\ ws.deadline = 30
    /\ ws.pings = 1


\* C36: for every instruction built with the opcode "error", with no
\* argument, one, two or more, and whether or not the status argument is a
\* decimal number, Error() returns an error and does not crash.
C36_ErrorNeverCrashes ==
    (codec.pc = "errored" /\ codec.ver = "protocol"
        /\ codec.opcode = "error"
        /\ codec.wire = NewInstruction("error", codec.args)) =>
        /\ ~codec.errPanic
        /\ codec.err # Nil


\* What the recording of connection c1 holds, the data its gzip writer has
\* still to flush included.
RecordingOf ==
    IF Filename(fr, "c1") \in DOMAIN fr.files
    THEN fr.files[Filename(fr, "c1")].data
             \o fr.files[Filename(fr, "c1")].buffered
    ELSE ""

\* C34: the file recorder loses no data: whatever Record and Close calls
\* were made for a connection, Record after Close and Record with no open
\* before it included, once no Record is in progress the recording of the
\* connection holds the data of all the Record calls, in call order.
C34_NoDataLost ==
    (fr.pc = "on" /\ ~fr.createFails /\ ~fr.crashed
        /\ \A t \in Threads : fr.th[t].op # "Record") =>
        RecordingOf = fr.recorded


\* The callers that are in the body of a method, where the maps are used.
InBody == {t \in Threads : fr.th[t].pc = "body"}

\* C35: every FileRecorder method holds the mutex while it uses the writer
\* maps and releases it when it returns: no two callers are in a method
\* body at once, a caller in a body holds the mutex, and the mutex is held
\* only by a caller that is in a body, so that a call made after another
\* has returned does not wait for ever in f.mu.Lock().
C35_MutexDiscipline ==
    fr.pc = "on" =>
        /\ Cardinality(InBody) <= 1
        /\ \A t \in InBody : fr.mu = t
        /\ fr.mu # 0 => fr.mu \in InBody
        /\ ~fr.crashed



\* C37: in the FileRecorders that have both maps, writers and closers have
\* the same keys after any Record and Close calls, those whose os.Create
\* failed included; the keys are connection ids without their leading "$";
\* and a Close that returns leaves the connection in neither map.
C37_WritersClosersAgree ==
    /\ []((fr.pc = "on" /\ fr.ver \in {"recorder", "record"}) =>
            /\ fr.writers = fr.closers
            /\ \A k \in fr.writers : TrimDollar(k) = k)
    /\ [][(fr.pc = "on" /\ fr.ver \in {"recorder", "record"}) =>
            \A t \in Threads :
                (fr.th[t].pc = "body" /\ fr.th[t].op = "Close"
                    /\ fr'.th[t].pc = "idle") =>
                    /\ TrimDollar(fr.th[t].id) \notin fr'.writers
                    /\ TrimDollar(fr.th[t].id) \notin fr'.closers]_vars

\* Two Record calls under "$c1", the first of which could not create the
\* file: the second opened it, and both maps hold c1.
C37_Witness ==
    /\ fr.pc = "on"
    /\ fr.ver = "recorder"
    /\ fr.createFails
    /\ \A t \in Threads : fr.th[t].pc = "idle"
    /\ fr.records = 2
    /\ fr.opens = 1
    /\ fr.recorded = "b"
    /\ fr.writers = {"c1"}
    /\ fr.closers = {"c1"}

====
